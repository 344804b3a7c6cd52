---------------------------- MODULE Retention -----------------------------
(***************************************************************************)
(* How long the ledger remembers: the maintenance loop of                  *)
(* server/ledger/collector.ts (maintainOnce) with rollupSince and          *)
(* pruneRequests of server/ledger/store.ts, against the pop loop storing   *)
(* requests at any moment, and the two ways server/ledger/queries.ts reads *)
(* a range back.                                                           *)
(*                                                                         *)
(* Times are integers, in a unit that divides Hour; a request is its       *)
(* timestamp.  request_rollups holds sums per hour: it is represented by   *)
(* the set of requests those sums count.                                   *)
(***************************************************************************)
EXTENDS Integers, FiniteSets

CONSTANTS
  Hour,         \* the rollup bucket
  Horizon,      \* 48 h: how far below the newest request a pass recomputes
  RawRetention, \* RAW_RETENTION_DAYS
  Late,         \* environment: a request is stored at most Late after its timestamp
  MaxIdle,      \* environment: the newest stored request is never older than this
  MaintainGap,  \* environment: a pass reaches its rollup at least this often
  MaxTime,      \* bound on the clock
  MaxRequests   \* bound on the requests ever stored

ASSUME UnitAssumption == Hour \in Nat \ {0}
ASSUME WindowAssumption == Horizon \in Nat /\ RawRetention \in Nat
ASSUME EnvironmentAssumption == Late \in Nat /\ MaxIdle \in Nat /\ MaintainGap \in Nat
ASSUME BoundAssumption == MaxTime \in Nat /\ MaxRequests \in Nat

\* A request is rolled up before the horizon passes it.
ASSUME HorizonAssumption == Late + MaintainGap <= Horizon

VARIABLES
  now,          \* wall clock
  requests,     \* table requests
  rollups,      \* what the sums of table request_rollups count
  ever,         \* history: every request ever stored
  pc,           \* next statement of the maintenance loop
  at,           \* maintainOnce: at
  latest,       \* maintainOnce: max(timestamp), or None
  lastPass,     \* history: when the last pass that rolled up read max(timestamp)
  lastMaintenance  \* collector_state last_maintenance_at

vars == <<now, requests, rollups, ever, pc, at, latest, lastPass, lastMaintenance>>
loopVars == <<pc, at, latest>>

None == -1
HourFloor(t) == t - (t % Hour)

\* SELECT max(timestamp) FROM requests
IsNewest(t) == t \in requests /\ \A u \in requests : u <= t

-----------------------------------------------------------------------------
(* The environment: time, and the pop loop. *)

\* While requests are kept, the newest of them is at most MaxIdle old.
TrafficFlows(t) == requests = {} \/ \E u \in requests : t - u <= MaxIdle

MaintenanceKeepsUp(t) == t - lastPass <= MaintainGap

Tick ==
  /\ now < MaxTime
  /\ TrafficFlows(now + 1) /\ MaintenanceKeepsUp(now + 1)
  /\ now' = now + 1
  /\ UNCHANGED <<requests, rollups, ever, loopVars, lastPass, lastMaintenance>>

\* insertRequests, seen by maintenance: the pop loop is a fiber of its own and
\* commits between any two statements of a pass.
Store(t) ==
  /\ t \in (now - Late)..now /\ t >= 0
  /\ t \notin ever /\ Cardinality(ever) < MaxRequests
  /\ requests' = requests \union {t}
  /\ ever' = ever \union {t}
  /\ UNCHANGED <<now, rollups, loopVars, lastPass, lastMaintenance>>

-----------------------------------------------------------------------------
(* maintainOnce, one statement or transaction at a time. *)

\* Mutant: the pass rolls up although there is no newest request.
ReadNewestUnchecked ==
  /\ pc = "idle"
  /\ at' = now
  /\ \/ requests = {} /\ latest' = None
     \/ \E t \in requests : IsNewest(t) /\ latest' = t
  /\ pc' = "rollup"
  /\ UNCHANGED <<now, requests, rollups, ever, lastPass, lastMaintenance>>

ReadNewest ==
  /\ pc = "idle"
  /\ at' = now
  /\ \/ /\ requests = {}
        /\ latest' = None /\ pc' = "prune" /\ lastPass' = now
     \/ \E t \in requests : /\ IsNewest(t)
                            /\ latest' = t /\ pc' = "rollup" /\ lastPass' = lastPass
  /\ UNCHANGED <<now, requests, rollups, ever, lastMaintenance>>

\* Mutant: the pass recomputes the whole retention window.
RollupFloorFromRetention == HourFloor(latest - RawRetention)

\* rollupSince(newest - 48 h): drop every rolled hour from the floor on and sum
\* the stored rows from the floor on again, in one transaction.
RollupFloor == HourFloor(latest - Horizon)

\* Mutant: every rolled hour is deleted, not those from the floor on.
RollupSinceDeletesAll ==
  /\ pc = "rollup"
  /\ rollups' = {t \in requests : t >= RollupFloor}
  /\ lastPass' = at
  /\ pc' = "prune"
  /\ UNCHANGED <<now, requests, ever, at, latest, lastMaintenance>>

\* Mutant: the sums leave out the request that starts the first hour.
RollupSinceExclusive ==
  /\ pc = "rollup"
  /\ rollups' = {t \in rollups : HourFloor(t) < RollupFloor}
                  \union {t \in requests : t > RollupFloor}
  /\ lastPass' = at
  /\ pc' = "prune"
  /\ UNCHANGED <<now, requests, ever, at, latest, lastMaintenance>>

RollupSince ==
  /\ pc = "rollup"
  /\ rollups' = {t \in rollups : HourFloor(t) < RollupFloor}
                  \union {t \in requests : t >= RollupFloor}
  /\ lastPass' = at
  /\ pc' = "prune"
  /\ UNCHANGED <<now, requests, ever, at, latest, lastMaintenance>>

\* Mutant: the cutoff itself is deleted too.
PruneInclusive ==
  /\ pc = "prune"
  /\ requests' = {t \in requests : ~(t <= at - RawRetention)}
  /\ pc' = "stamp"
  /\ UNCHANGED <<now, rollups, ever, at, latest, lastPass, lastMaintenance>>

Prune ==
  /\ pc = "prune"
  /\ requests' = {t \in requests : ~(t < at - RawRetention)}
  /\ pc' = "stamp"
  /\ UNCHANGED <<now, rollups, ever, at, latest, lastPass, lastMaintenance>>

Stamp ==
  /\ pc = "stamp"
  /\ lastMaintenance' = at
  /\ pc' = "idle"
  /\ UNCHANGED <<now, requests, rollups, ever, at, latest, lastPass>>

\* A statement fails or the process dies; the next pass starts over.
Abort ==
  /\ pc # "idle"
  /\ pc' = "idle"
  /\ UNCHANGED <<now, requests, rollups, ever, at, latest, lastPass, lastMaintenance>>

-----------------------------------------------------------------------------
Init ==
  /\ now = 0 /\ requests = {} /\ rollups = {} /\ ever = {}
  /\ pc = "idle" /\ at = 0 /\ latest = None /\ lastPass = 0 /\ lastMaintenance = 0

Maintain == ReadNewest \/ RollupSince \/ Prune \/ Stamp
Next == Tick \/ (\E t \in (now - Late)..now : Store(t)) \/ Maintain \/ Abort

Spec == Init /\ [][Next]_vars
-----------------------------------------------------------------------------
(* Reading a range [from, to) back: server/ledger/queries.ts and           *)
(* functions/ledger.ts.                                                    *)

UsesRollups(from) == from < now - RawRetention

Raw(from, to)    == {t \in requests : from <= t /\ t < to}
Rolled(from, to) == {t \in rollups : from <= HourFloor(t) /\ HourFloor(t) < to}

\* summary, requestSeries and the current half of breakdown
Read(from, to) == IF UsesRollups(from) THEN Rolled(from, to) ELSE Raw(from, to)

\* breakdown's previous half: previousRange of [from, to), read from the table
\* the current half is read from.
ReadPrevious(from, to) ==
  LET before == from - (to - from)
  IN  IF UsesRollups(from) THEN Rolled(before, from) ELSE Raw(before, from)

\* earliestRequestAt: the older of the first raw row and the first rolled hour.
Stored == requests \union {HourFloor(t) : t \in rollups}
IsEarliest(e) == e \in Stored /\ \A t \in Stored : e <= t

\* isComparable
Comparable(from, to) == \E e \in Stored : IsEarliest(e) /\ from - (to - from) >= e

EverIn(from, to) == {t \in ever : from <= t /\ t < to}

-----------------------------------------------------------------------------
(* Properties. *)

\* Traffic never pauses long enough for prune to reach the hours a pass still
\* recomputes; the histories below are kept under it.
IdleBound == /\ MaxIdle + Horizon + Hour <= RawRetention + 1
             /\ Late <= MaxIdle

TypeOK ==
  /\ now \in 0..MaxTime
  /\ ever \subseteq 0..now
  /\ requests \subseteq ever /\ rollups \subseteq ever
  /\ pc \in {"idle", "rollup", "prune", "stamp"}
  /\ at \in 0..now /\ lastPass \in 0..at /\ lastMaintenance \in 0..at
  /\ latest \in {None} \union 0..now
  /\ pc = "rollup" => latest \in 0..at

\* Every request ever stored is counted: by its raw row or by a rollup.
\* "Drops raw rows older than the retention window; rollups keep the history"
\* (store.ts pruneRequests).
HistoryKept == ever \subseteq requests \union rollups

\* A range read from the raw rows lacks no request, whatever maintenance did
\* and however far behind it is: what usesRollups (queries.ts) calls raw, prune
\* (store.ts) has not touched.
RawRangeComplete ==
  \A from, to \in 0..MaxTime :
    ~UsesRollups(from) => Read(from, to) = EverIn(from, to)

\* A range of whole hours read from the rollups lacks no request either, as far
\* as the last pass could see.
RolledRangeComplete ==
  \A from, to \in 0..MaxTime :
    /\ UsesRollups(from)
    /\ HourFloor(from) = from /\ HourFloor(to) = to
    /\ to + Late <= lastPass
    => Read(from, to) = EverIn(from, to)

\* What last_maintenance_at says is done is done: nothing older than the
\* retention window at that moment is still in requests.
PrunedAsStamped == \A t \in requests : t >= lastMaintenance - RawRetention

\* The recomputation of a pass never takes a request out of the rollups, though
\* it deletes every hour from the floor on and prune may have dropped its row.
RolledUpStays == [][rollups \subseteq rollups']_vars

\* "The previous range is fully inside stored history, so deltas mean something"
\* (functions/ledger.ts, the field isComparable fills): the previous counts of
\* a breakdown are then those of every request of that range.
PreviousComplete ==
  \A from, to \in 0..MaxTime :
    /\ from < to /\ Comparable(from, to)
    /\ HourFloor(from) = from /\ HourFloor(to) = to
    => EverIn(from - (to - from), from) \subseteq ReadPrevious(from, to)
=============================================================================
