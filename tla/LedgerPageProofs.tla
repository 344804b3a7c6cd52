-------------------------- MODULE LedgerPageProofs --------------------------
(***************************************************************************)
(* Theorems about the ledger's tables and the page that is read from them, *)
(* for every value of the constants.                                       *)
(*                                                                         *)
(* First Retention: its types, the completeness of what is read back, and  *)
(* the conservation of rolled history.  All but the types rest on          *)
(* IdleBound.  Then the page: the statements of one load, each a moment of *)
(* its own between stores, rollups and prunes, never count less than one   *)
(* before, since the raw rows of a range young enough are every request of *)
(* it and rolled hours only gain.  Last what the page shows of what it has *)
(* read: its bars and its rows add up and its percentiles are ranks, for   *)
(* any set of requests.                                                    *)
(***************************************************************************)
EXTENDS LedgerPage, FiniteSetTheorems, SequenceTheorems, TLAPS

-----------------------------------------------------------------------------
(* The tables. *)

\* HourFloor picks the start of the hour a time lies in.
LEMMA HourFloorBounds ==
  ASSUME NEW t \in Int
  PROVE  /\ HourFloor(t) \in Int
         /\ HourFloor(t) <= t /\ t < HourFloor(t) + Hour
  BY UnitAssumption DEF HourFloor

\* The hour of a time at or after the start of an hour does not start earlier.
LEMMA HourFloorMonotone ==
  ASSUME NEW t \in Int, NEW u \in Int, t >= HourFloor(u)
  PROVE  HourFloor(t) >= HourFloor(u)
  BY UnitAssumption DEF HourFloor

\* The floor a pass recomputes from lies below the horizon, less than an hour.
LEMMA FloorBounds ==
  ASSUME latest \in Int
  PROVE  /\ RollupFloor \in Int
         /\ RollupFloor <= latest - Horizon
         /\ latest - Horizon < RollupFloor + Hour
  BY HourFloorBounds, WindowAssumption DEF RollupFloor

-----------------------------------------------------------------------------
(* The parts of the inductive invariant. *)

\* A raw row that is gone was older than the last cutoff.
PrunedIsOld == \A t \in ever \ requests : t < at - RawRetention

\* A row no rollup counts yet was stored after the last pass looked.
UnrolledIsYoung == \A t \in requests \ rollups : t + Late >= lastPass

\* What a pass read is recent enough to compute the floor from.
ReadIsRecent == pc = "rollup" => latest >= at - MaxIdle

PruneFollowsRollup == pc = "prune" => lastPass = at

CutoffApplied == pc = "stamp" => \A t \in requests : t >= at - RawRetention

Paced == TrafficFlows(now) /\ MaintenanceKeepsUp(now)

IInv ==
  /\ TypeOK
  /\ Paced
  /\ PrunedIsOld
  /\ UnrolledIsYoung
  /\ ReadIsRecent
  /\ PruneFollowsRollup
  /\ CutoffApplied
  /\ PrunedAsStamped
  /\ HistoryKept

-----------------------------------------------------------------------------
(* Types. *)

LEMMA InitTypeOK == Init => TypeOK
  BY BoundAssumption DEF Init, TypeOK, None

LEMMA NextTypeOK == TypeOK /\ [Next]_vars => TypeOK'
<1> SUFFICES ASSUME TypeOK, [Next]_vars PROVE TypeOK'
  OBVIOUS
<1> USE BoundAssumption, EnvironmentAssumption DEF TypeOK, None
<1>1. CASE Tick
  BY <1>1 DEF Tick, loopVars
<1>2. ASSUME NEW t \in (now - Late)..now, Store(t) PROVE TypeOK'
  BY <1>2 DEF Store, loopVars
<1>3. CASE ReadNewest
  <2>1. CASE requests = {} /\ latest' = None /\ pc' = "prune" /\ lastPass' = now
    BY <1>3, <2>1 DEF ReadNewest
  <2>2. ASSUME NEW t \in requests, latest' = t, pc' = "rollup", lastPass' = lastPass
        PROVE  TypeOK'
    <3>1. t \in 0..now
      OBVIOUS
    <3>2. QED
      BY <1>3, <2>2, <3>1 DEF ReadNewest
  <2>3. QED
    BY <1>3, <2>1, <2>2 DEF ReadNewest
<1>4. CASE RollupSince
  <2>1. rollups' \subseteq ever
    BY <1>4 DEF RollupSince
  <2>2. QED
    BY <1>4, <2>1 DEF RollupSince
<1>5. CASE Prune
  BY <1>5 DEF Prune
<1>6. CASE Stamp
  BY <1>6 DEF Stamp
<1>7. CASE Abort
  BY <1>7 DEF Abort
<1>8. CASE UNCHANGED vars
  BY <1>8 DEF vars
<1>9. QED
  BY <1>1, <1>2, <1>3, <1>4, <1>5, <1>6, <1>7, <1>8 DEF Next, Maintain

\* The tables hold stored requests only, the fiber's cursor never runs ahead of
\* the clock: the type invariant of the specification.
THEOREM TypeCorrect == Spec => []TypeOK
<1>1. Init => TypeOK
  BY InitTypeOK
<1>2. TypeOK /\ [Next]_vars => TypeOK'
  BY NextTypeOK
<1>3. QED
  BY <1>1, <1>2, PTL DEF Spec

-----------------------------------------------------------------------------
(* What one recomputation does. *)

\* Every stored row the pass has not rolled up yet lies at or above the floor:
\* the horizon is longer than a row can wait for its pass.
LEMMA UnrolledAboveFloor ==
  ASSUME IInv, pc = "rollup", NEW t \in requests \ rollups
  PROVE  t >= RollupFloor
<1>1. latest \in Int /\ latest <= now /\ t \in Int /\ lastPass \in Int /\ now \in Int
  BY DEF IInv, TypeOK
<1>2. t + Late >= lastPass /\ now - lastPass <= MaintainGap
  BY DEF IInv, UnrolledIsYoung, Paced, MaintenanceKeepsUp
<1>3. RollupFloor \in Int /\ RollupFloor <= latest - Horizon
  BY <1>1, FloorBounds
<1>4. QED
  BY <1>1, <1>2, <1>3, HorizonAssumption, EnvironmentAssumption, WindowAssumption

\* A rolled request at or above the floor still has its raw row: prune never
\* reached the hours a pass deletes.
LEMMA RawAboveFloor ==
  ASSUME IInv, IdleBound, pc = "rollup", NEW t \in rollups, t >= RollupFloor
  PROVE  t \in requests
<1>1. latest \in Int /\ t \in ever /\ t \in Int /\ at \in Int
  BY DEF IInv, TypeOK
<1>2. latest >= at - MaxIdle
  BY DEF IInv, ReadIsRecent
<1>3. RollupFloor \in Int /\ latest - Horizon < RollupFloor + Hour
  BY <1>1, FloorBounds
<1>4. ~(t < at - RawRetention)
  BY <1>1, <1>2, <1>3, UnitAssumption, WindowAssumption, EnvironmentAssumption DEF IdleBound
<1>5. QED
  BY <1>1, <1>4 DEF IInv, PrunedIsOld

\* So a pass only ever adds to the rollups ...
LEMMA RollupGrows ==
  ASSUME IInv, IdleBound, RollupSince
  PROVE  rollups \subseteq rollups'
<1> SUFFICES ASSUME NEW t \in rollups PROVE t \in rollups'
  OBVIOUS
<1>1. pc = "rollup" /\ t \in Int /\ latest \in Int
  BY DEF RollupSince, IInv, TypeOK
<1>2. RollupFloor \in Int /\ HourFloor(t) \in Int /\ HourFloor(t) <= t
  BY <1>1, FloorBounds, HourFloorBounds
<1>3. CASE HourFloor(t) < RollupFloor
  BY <1>3 DEF RollupSince
<1>4. CASE ~(HourFloor(t) < RollupFloor)
  <2>1. t >= RollupFloor
    BY <1>1, <1>2, <1>4
  <2>2. t \in requests
    BY <1>1, <2>1, RawAboveFloor
  <2>3. QED
    BY <2>1, <2>2 DEF RollupSince
<1>5. QED
  BY <1>3, <1>4

\* ... and ends with every stored row counted.
LEMMA RollupCovers ==
  ASSUME IInv, IdleBound, RollupSince
  PROVE  requests \subseteq rollups'
<1> SUFFICES ASSUME NEW t \in requests PROVE t \in rollups'
  OBVIOUS
<1>1. CASE t \in rollups
  BY <1>1, RollupGrows
<1>2. CASE t \notin rollups
  <2>1. t >= RollupFloor
    BY <1>2, UnrolledAboveFloor DEF RollupSince
  <2>2. QED
    BY <2>1 DEF RollupSince
<1>3. QED
  BY <1>1, <1>2

-----------------------------------------------------------------------------
(* The invariant is inductive: one lemma per action. *)

LEMMA InitIInv == IdleBound /\ Init => IInv
<1> SUFFICES ASSUME IdleBound, Init PROVE IInv
  OBVIOUS
<1>1. TypeOK
  BY InitTypeOK
<1>2. MaintenanceKeepsUp(now) /\ TrafficFlows(now)
  BY EnvironmentAssumption DEF Init, MaintenanceKeepsUp, TrafficFlows
<1>3. QED
  BY <1>1, <1>2 DEF Init, IInv, Paced, PrunedIsOld, UnrolledIsYoung, ReadIsRecent,
     PruneFollowsRollup, CutoffApplied, PrunedAsStamped, HistoryKept

LEMMA TickIInv ==
  ASSUME IInv, IdleBound, Tick, TypeOK'
  PROVE  IInv'
<1>1. Paced'
  BY DEF Tick, IInv, TypeOK, Paced, TrafficFlows, MaintenanceKeepsUp
<1>2. QED
  BY <1>1 DEF Tick, loopVars, IInv, PrunedIsOld, UnrolledIsYoung, ReadIsRecent,
     PruneFollowsRollup, CutoffApplied, PrunedAsStamped, HistoryKept

\* A request stored between two statements of a pass is too young to matter to
\* it: above the cutoff, and at most Late behind the pass's read.
LEMMA StoreIInv ==
  ASSUME IInv, IdleBound, NEW t \in (now - Late)..now, Store(t), TypeOK'
  PROVE  IInv'
<1> USE DEF Store, loopVars
<1>1. /\ now \in Int /\ at \in Int /\ lastPass \in Int /\ lastMaintenance \in Int /\ t \in Int
      /\ at <= now /\ lastPass <= now /\ lastMaintenance <= now
      /\ now - t <= Late
  BY EnvironmentAssumption DEF IInv, TypeOK
<1>2. Paced'
  <2>1. now - t <= MaxIdle
    BY <1>1, EnvironmentAssumption DEF IdleBound
  <2>2. TrafficFlows(now)'
    BY <2>1 DEF TrafficFlows
  <2>3. QED
    BY <2>2 DEF IInv, Paced, MaintenanceKeepsUp
<1>3. PrunedIsOld'
  BY DEF IInv, PrunedIsOld
<1>4. UnrolledIsYoung'
  BY <1>1, EnvironmentAssumption DEF IInv, UnrolledIsYoung
<1>5. ReadIsRecent' /\ PruneFollowsRollup'
  BY DEF IInv, ReadIsRecent, PruneFollowsRollup
<1>6. t >= at - RawRetention /\ t >= lastMaintenance - RawRetention
  BY <1>1, EnvironmentAssumption, WindowAssumption, UnitAssumption DEF IdleBound
<1>7. CutoffApplied' /\ PrunedAsStamped'
  BY <1>6 DEF IInv, CutoffApplied, PrunedAsStamped
<1>8. HistoryKept'
  BY DEF IInv, HistoryKept
<1>9. QED
  BY <1>2, <1>3, <1>4, <1>5, <1>7, <1>8 DEF IInv

LEMMA ReadNewestIInv ==
  ASSUME IInv, IdleBound, ReadNewest, TypeOK'
  PROVE  IInv'
<1> USE DEF ReadNewest
<1>1. /\ now \in Int /\ at \in Int /\ at <= now /\ lastPass \in Int
      /\ requests \subseteq Int /\ ever \subseteq Int
  BY DEF IInv, TypeOK
<1>2. Paced'
  BY <1>1, EnvironmentAssumption DEF IInv, Paced, TrafficFlows, MaintenanceKeepsUp
<1>3. PrunedIsOld'
  BY <1>1, WindowAssumption DEF IInv, PrunedIsOld
<1>4. UnrolledIsYoung'
  BY DEF IInv, UnrolledIsYoung
<1>5. ReadIsRecent'
  <2> SUFFICES ASSUME pc' = "rollup" PROVE latest' >= now - MaxIdle
    BY DEF ReadIsRecent
  <2>1. requests # {} /\ latest' \in requests /\ \A u \in requests : u <= latest'
    BY DEF IsNewest
  <2>2. PICK u \in requests : now - u <= MaxIdle
    BY <2>1 DEF IInv, Paced, TrafficFlows
  <2>3. QED
    BY <1>1, <2>1, <2>2, EnvironmentAssumption
<1>6. PruneFollowsRollup'
  BY DEF PruneFollowsRollup
<1>7. CutoffApplied' /\ PrunedAsStamped' /\ HistoryKept'
  BY DEF IInv, CutoffApplied, PrunedAsStamped, HistoryKept
<1>8. QED
  BY <1>2, <1>3, <1>4, <1>5, <1>6, <1>7 DEF IInv

LEMMA RollupSinceIInv ==
  ASSUME IInv, IdleBound, RollupSince, TypeOK'
  PROVE  IInv'
<1>1. rollups \subseteq rollups' /\ requests \subseteq rollups'
  BY RollupGrows, RollupCovers
<1> USE DEF RollupSince
<1>2. Paced'
  <2>1. now - at <= MaintainGap
    BY EnvironmentAssumption DEF IInv, Paced, MaintenanceKeepsUp, TypeOK
  <2>2. QED
    BY <2>1 DEF IInv, Paced, TrafficFlows, MaintenanceKeepsUp
<1>3. PrunedIsOld'
  BY DEF IInv, PrunedIsOld
<1>4. UnrolledIsYoung'
  BY <1>1 DEF UnrolledIsYoung
<1>5. ReadIsRecent' /\ PruneFollowsRollup' /\ CutoffApplied'
  BY DEF ReadIsRecent, PruneFollowsRollup, CutoffApplied
<1>6. PrunedAsStamped' /\ HistoryKept'
  BY <1>1 DEF IInv, PrunedAsStamped, HistoryKept
<1>7. QED
  BY <1>2, <1>3, <1>4, <1>5, <1>6 DEF IInv

\* Prune drops only rows a rollup counts, and never the newest one.
LEMMA PruneIInv ==
  ASSUME IInv, IdleBound, Prune, TypeOK'
  PROVE  IInv'
<1> USE DEF Prune
<1>1. /\ now \in Int /\ at \in Int /\ at <= now /\ lastPass = at
      /\ requests \subseteq Int /\ ever \subseteq Int
  BY DEF IInv, TypeOK, PruneFollowsRollup
<1>2. Paced'
  <2>1. CASE requests = {}
    BY <2>1 DEF IInv, Paced, TrafficFlows, MaintenanceKeepsUp
  <2>2. CASE requests # {}
    <3>1. PICK u \in requests : now - u <= MaxIdle
      BY <2>2 DEF IInv, Paced, TrafficFlows
    <3>2. ~(u < at - RawRetention)
      BY <1>1, <3>1, UnitAssumption, WindowAssumption, EnvironmentAssumption DEF IdleBound
    <3>3. QED
      BY <3>1, <3>2 DEF IInv, Paced, TrafficFlows, MaintenanceKeepsUp
  <2>3. QED
    BY <2>1, <2>2
<1>3. PrunedIsOld'
  BY DEF IInv, PrunedIsOld
<1>4. UnrolledIsYoung'
  BY DEF IInv, UnrolledIsYoung
<1>5. ReadIsRecent' /\ PruneFollowsRollup' /\ CutoffApplied'
  BY <1>1, WindowAssumption DEF ReadIsRecent, PruneFollowsRollup, CutoffApplied
<1>6. PrunedAsStamped'
  BY DEF IInv, PrunedAsStamped
<1>7. HistoryKept'
  <2> SUFFICES ASSUME NEW t \in requests, t < at - RawRetention PROVE t \in rollups
    BY DEF IInv, HistoryKept
  <2>1. ~(t + Late >= lastPass)
    BY <1>1, UnitAssumption, WindowAssumption, EnvironmentAssumption DEF IdleBound
  <2>2. QED
    BY <2>1 DEF IInv, UnrolledIsYoung
<1>8. QED
  BY <1>2, <1>3, <1>4, <1>5, <1>6, <1>7 DEF IInv

LEMMA StampIInv ==
  ASSUME IInv, IdleBound, Stamp, TypeOK'
  PROVE  IInv'
  BY DEF Stamp, IInv, Paced, TrafficFlows, MaintenanceKeepsUp, PrunedIsOld, UnrolledIsYoung,
     ReadIsRecent, PruneFollowsRollup, CutoffApplied, PrunedAsStamped, HistoryKept

LEMMA AbortIInv ==
  ASSUME IInv, IdleBound, Abort, TypeOK'
  PROVE  IInv'
  BY DEF Abort, IInv, Paced, TrafficFlows, MaintenanceKeepsUp, PrunedIsOld, UnrolledIsYoung,
     ReadIsRecent, PruneFollowsRollup, CutoffApplied, PrunedAsStamped, HistoryKept

LEMMA StutterIInv ==
  ASSUME IInv, UNCHANGED vars, TypeOK'
  PROVE  IInv'
  BY DEF vars, IInv, Paced, TrafficFlows, MaintenanceKeepsUp, PrunedIsOld, UnrolledIsYoung,
     ReadIsRecent, PruneFollowsRollup, CutoffApplied, PrunedAsStamped, HistoryKept

LEMMA NextIInv == IdleBound /\ IInv /\ [Next]_vars => IInv'
<1> SUFFICES ASSUME IdleBound, IInv, [Next]_vars PROVE IInv'
  OBVIOUS
<1>1. TypeOK'
  BY NextTypeOK DEF IInv
<1>2. QED
  BY <1>1, TickIInv, StoreIInv, ReadNewestIInv, RollupSinceIInv, PruneIInv, StampIInv,
     AbortIInv, StutterIInv DEF Next, Maintain

LEMMA Inductive ==
  ASSUME IdleBound
  PROVE  Spec => []IInv
<1>1. Init => IInv
  BY InitIInv
<1>2. IInv /\ [Next]_vars => IInv'
  BY NextIInv
<1>3. QED
  BY <1>1, <1>2, PTL DEF Spec

-----------------------------------------------------------------------------
(* The theorems. *)

\* However the passes, the pops and the failures of both interleave, every
\* request ever stored stays counted (store.ts rollupSince, pruneRequests).
THEOREM HistoryConserved ==
  ASSUME IdleBound
  PROVE  Spec => []HistoryKept
<1>1. IInv => HistoryKept
  BY DEF IInv
<1>2. QED
  BY <1>1, Inductive, PTL

\* No pass takes a request out of the rollups (collector.ts maintainOnce).
THEOREM RolledHistoryGrows ==
  ASSUME IdleBound
  PROVE  Spec => RolledUpStays
<1>1. IInv /\ [Next]_vars => [rollups \subseteq rollups']_vars
  <2> SUFFICES ASSUME IInv, Next PROVE rollups \subseteq rollups'
    OBVIOUS
  <2>1. CASE RollupSince
    BY <2>1, RollupGrows
  <2>2. CASE ~RollupSince
    BY <2>2 DEF Next, Maintain, Tick, Store, ReadNewest, Prune, Stamp, Abort
  <2>3. QED
    BY <2>1, <2>2
<1>2. QED
  BY <1>1, Inductive, PTL DEF Spec, RolledUpStays

\* The cutoff a finished pass reports has been applied (collector.ts,
\* last_maintenance_at).
THEOREM CutoffReported ==
  ASSUME IdleBound
  PROVE  Spec => []PrunedAsStamped
<1>1. IInv => PrunedAsStamped
  BY DEF IInv
<1>2. QED
  BY <1>1, Inductive, PTL

\* A range the queries read from the raw table lacks nothing (queries.ts
\* usesRollups against store.ts pruneRequests).
THEOREM RawReadsComplete ==
  ASSUME IdleBound
  PROVE  Spec => []RawRangeComplete
<1>1. IInv => RawRangeComplete
  <2> SUFFICES ASSUME IInv, NEW from \in 0..MaxTime, NEW to \in 0..MaxTime,
                      ~UsesRollups(from)
               PROVE  Raw(from, to) = EverIn(from, to)
    BY DEF RawRangeComplete, Read
  <2>1. /\ requests \subseteq ever /\ ever \subseteq Int /\ from \in Int
        /\ now \in Int /\ at \in Int /\ at <= now
    BY DEF IInv, TypeOK
  <2>2. ASSUME NEW t \in ever, from <= t PROVE t \in requests
    BY <2>1, <2>2, WindowAssumption DEF IInv, PrunedIsOld, UsesRollups
  <2>3. QED
    BY <2>1, <2>2 DEF Raw, EverIn
<1>2. QED
  BY <1>1, Inductive, PTL

\* A range of whole hours read from the rollups lacks nothing the last pass
\* could have seen (queries.ts rolledBreakdown, summary, requestSeries).
THEOREM RolledReadsComplete ==
  ASSUME IdleBound
  PROVE  Spec => []RolledRangeComplete
<1>1. IInv => RolledRangeComplete
  <2> SUFFICES ASSUME IInv, NEW from \in 0..MaxTime, NEW to \in 0..MaxTime,
                      HourFloor(from) = from, HourFloor(to) = to,
                      to + Late <= lastPass
               PROVE  Rolled(from, to) = EverIn(from, to)
    BY DEF RolledRangeComplete, Read
  <2>1. /\ rollups \subseteq ever /\ ever \subseteq Int
        /\ from \in Int /\ to \in Int /\ lastPass \in Int
    BY DEF IInv, TypeOK
  <2>2. ASSUME NEW t \in ever
        PROVE  /\ from <= HourFloor(t) <=> from <= t
               /\ HourFloor(t) < to <=> t < to
    BY <2>1, HourFloorBounds, HourFloorMonotone
  <2>3. ASSUME NEW t \in ever, t < to PROVE t \in rollups
    <3>1. ~(t + Late >= lastPass)
      BY <2>1, <2>3, EnvironmentAssumption
    <3>2. QED
      BY <3>1 DEF IInv, HistoryKept, UnrolledIsYoung
  <2>4. QED
    BY <2>1, <2>2, <2>3 DEF Rolled, EverIn
<1>2. QED
  BY <1>1, Inductive, PTL

-----------------------------------------------------------------------------
(* The loads. *)

\* The range was young when the rows were read and is too old for raw rows now.
Expired == ~page.rolled /\ UsesRollups(range.from)

\* What the tables hold of the range, or have held.
Source == IF page.rolled THEN Rolled(range.from, range.to) ELSE EverIn(range.from, range.to)

PageType ==
  /\ range \in [from : Int, to : Int]
  /\ page \in [rolled : BOOLEAN, rows : SUBSET Int, latencies : SUBSET Int, models : SUBSET Int,
               current : SUBSET Int, seriesRolled : BOOLEAN, series : SUBSET Int]

\* Old once is old for good.
RolledIsOld == page.rolled => UsesRollups(range.from)

\* Nothing read so far has left the table it was read from.
ReadStays ==
  ~Expired => page.rows \subseteq Source /\ page.models \subseteq Source /\ page.current \subseteq Source

NothingRead == stage = "rows" => page = NoPage
ModelsRead == stage \in {"current", "series"} /\ ~Expired => page.rows \subseteq page.models
CurrentRead == stage = "series" /\ ~Expired => page.models \subseteq page.current

PInv ==
  /\ PageType
  /\ RolledIsOld
  /\ ReadStays
  /\ NothingRead
  /\ ModelsRead
  /\ CurrentRead
  /\ PageGrows

-----------------------------------------------------------------------------
(* What Retention says of one step. *)

\* Time, and what was ever stored or rolled up, only grow.
LEMMA TablesGrow ==
  ASSUME IInv, IdleBound, [Next]_vars
  PROVE  now <= now' /\ ever \subseteq ever' /\ rollups \subseteq rollups'
<1>1. now \in Int
  BY DEF IInv, TypeOK
<1>2. CASE Tick
  BY <1>1, <1>2 DEF Tick
<1>3. CASE \E t \in (now - Late)..now : Store(t)
  BY <1>1, <1>3 DEF Store
<1>4. CASE RollupSince
  BY <1>1, <1>4, RollupGrows DEF RollupSince
<1>5. CASE ReadNewest \/ Prune \/ Stamp \/ Abort \/ UNCHANGED vars
  BY <1>1, <1>5 DEF ReadNewest, Prune, Stamp, Abort, vars
<1>6. QED
  BY <1>2, <1>3, <1>4, <1>5 DEF Next, Maintain

\* A range that is not too old is complete in the raw rows.
LEMMA YoungRangeComplete ==
  ASSUME IInv, NEW from \in Int, NEW to \in Int, ~UsesRollups(from)
  PROVE  Raw(from, to) = EverIn(from, to)
<1>1. requests \subseteq ever /\ ever \subseteq Int /\ now \in Int /\ at \in Int /\ at <= now
  BY DEF IInv, TypeOK
<1>2. ASSUME NEW t \in ever, from <= t PROVE t \in requests
  BY <1>1, <1>2, WindowAssumption DEF IInv, PrunedIsOld, UsesRollups
<1>3. QED
  BY <1>1, <1>2 DEF Raw, EverIn

LEMMA TablesAreTimes ==
  ASSUME IInv, NEW from \in Int, NEW to \in Int
  PROVE  /\ Raw(from, to) \subseteq EverIn(from, to) /\ EverIn(from, to) \in SUBSET Int
         /\ Raw(from, to) \in SUBSET Int /\ Rolled(from, to) \in SUBSET Int
<1>1. requests \subseteq ever /\ rollups \subseteq ever /\ ever \subseteq Int
  BY DEF IInv, TypeOK
<1>2. QED
  BY <1>1 DEF Raw, Rolled, EverIn

-----------------------------------------------------------------------------
(* The steps of the page. *)

LEMMA AskedIsRange ==
  ASSUME NEW t \in Int, NEW r \in Asked(t)
  PROVE  r \in [from : Int, to : Int]
<1>1. Day \in Int /\ DefaultSpan \in Int /\ Preset \subseteq Int
  BY CalendarAssumption, SpanAssumption
<1>2. CASE r \in {[from |-> t - span, to |-> t] : span \in Preset}
  BY <1>1, <1>2
<1>3. CASE r \in {Resolve(q, t) : q \in Custom}
  <2>1. PICK q \in Custom : r = Resolve(q, t)
    BY <1>3
  <2>2. q.from \in Int /\ q.to \in Int
    BY <2>1, CustomAssumption
  <2>3. QED
    BY <1>1, <2>1, <2>2 DEF Resolve
<1>4. QED
  BY <1>2, <1>3 DEF Asked

LEMMA LoadPInv ==
  ASSUME IInv, PInv, Load
  PROVE  PInv'
<1>1. now \in Int
  BY DEF IInv, TypeOK
<1>2. (page = NoPage)' /\ (stage # "shown")' /\ (range \in [from : Int, to : Int])'
  BY <1>1, AskedIsRange DEF Load
<1>3. QED
  BY <1>2 DEF PInv, PageType, RolledIsOld, ReadStays, NothingRead, ModelsRead, CurrentRead, PageGrows, Shown,
              NoPage, Expired

LEMMA LeavePInv ==
  ASSUME IInv, PInv, Leave
  PROVE  PInv'
  BY DEF Leave, PInv, PageType, RolledIsOld, ReadStays, NothingRead, ModelsRead, CurrentRead, PageGrows, Shown,
         NoPage, NoRange, Expired

LEMMA RowsPInv ==
  ASSUME IInv, PInv, Rows
  PROVE  PInv'
<1> DEFINE rolled == UsesRollups(range.from)
<1>1. /\ page = NoPage /\ range' = range /\ UNCHANGED vars
      /\ range.from \in Int /\ range.to \in Int
      /\ stage' \in {"models", "latencies", "current"}
  BY DEF Rows, To, Idle, PInv, NothingRead, PageType
<1>2. UsesRollups(range.from)' = rolled /\ EverIn(range.from, range.to)' = EverIn(range.from, range.to)
      /\ Rolled(range.from, range.to)' = Rolled(range.from, range.to)
  BY <1>1 DEF UsesRollups, EverIn, Rolled, vars
<1>3. /\ Counted(range, rolled) \in SUBSET Int
      /\ rolled => Counted(range, rolled) = Rolled(range.from, range.to)
      /\ ~rolled => Counted(range, rolled) \subseteq EverIn(range.from, range.to)
  BY <1>1, TablesAreTimes DEF Counted
<1>4. rolled \in BOOLEAN
  BY DEF UsesRollups
<1>5. CASE /\ page' = [page EXCEPT !.rolled = rolled, !.rows = Counted(range, rolled)]
           /\ stage' = IF rolled THEN "models" ELSE "latencies"
  BY <1>1, <1>2, <1>3, <1>4, <1>5
     DEF PInv, PageType, RolledIsOld, ReadStays, NothingRead, ModelsRead, CurrentRead, PageGrows, Shown,
         Expired, Source, NoPage
<1>6. CASE rolled /\ page' = [page EXCEPT !.rolled = TRUE] /\ stage' = "current"
  BY <1>1, <1>2, <1>6
     DEF PInv, PageType, RolledIsOld, ReadStays, NothingRead, ModelsRead, CurrentRead, PageGrows, Shown,
         Expired, Source, NoPage
<1>7. QED
  BY <1>5, <1>6 DEF Rows, To

LEMMA LatenciesPInv ==
  ASSUME IInv, PInv, Latencies
  PROVE  PInv'
<1>1. range.from \in Int /\ range.to \in Int /\ range' = range /\ stage' = "models" /\ UNCHANGED vars
  BY DEF Latencies, To, Idle, PInv, PageType
<1>2. UsesRollups(range.from)' = UsesRollups(range.from)
      /\ EverIn(range.from, range.to)' = EverIn(range.from, range.to)
      /\ Rolled(range.from, range.to)' = Rolled(range.from, range.to)
  BY <1>1 DEF UsesRollups, EverIn, Rolled, vars
<1>3. {t \in Counted(range, FALSE) : t \notin FailedAt} \in SUBSET Int
  BY <1>1, TablesAreTimes DEF Counted
<1>4. QED
  BY <1>1, <1>2, <1>3
     DEF Latencies, PInv, PageType, RolledIsOld, ReadStays, NothingRead, ModelsRead, CurrentRead,
         PageGrows, Shown, Expired, Source

\* What a statement counts of a range that has not expired is its source.
LEMMA CountedIsSource ==
  ASSUME IInv, PInv, ~Expired
  PROVE  /\ Counted(range, page.rolled) = Source
         /\ Read(range.from, range.to) = Source
         /\ page.rolled = UsesRollups(range.from)
<1>1. range.from \in Int /\ range.to \in Int /\ page.rolled \in BOOLEAN
  BY DEF PInv, PageType
<1>2. page.rolled = UsesRollups(range.from)
  BY <1>1 DEF PInv, RolledIsOld, Expired, UsesRollups
<1>3. CASE page.rolled
  BY <1>2, <1>3 DEF Counted, Read, Source
<1>4. CASE ~page.rolled
  BY <1>1, <1>2, <1>4, YoungRangeComplete DEF Counted, Read, Source
<1>5. QED
  BY <1>2, <1>3, <1>4

LEMMA ModelsPInv ==
  ASSUME IInv, PInv, Models
  PROVE  PInv'
<1>1. range.from \in Int /\ range.to \in Int /\ range' = range /\ stage' = "current" /\ UNCHANGED vars
  BY DEF Models, To, Idle, PInv, PageType
<1>2. UsesRollups(range.from)' = UsesRollups(range.from)
      /\ EverIn(range.from, range.to)' = EverIn(range.from, range.to)
      /\ Rolled(range.from, range.to)' = Rolled(range.from, range.to)
  BY <1>1 DEF UsesRollups, EverIn, Rolled, vars
<1>3. Counted(range, page.rolled) \in SUBSET Int
  BY <1>1, TablesAreTimes DEF Counted
<1>4. ~Expired => Counted(range, page.rolled) = Source
  BY CountedIsSource
<1>5. QED
  BY <1>1, <1>2, <1>3, <1>4
     DEF Models, PInv, PageType, RolledIsOld, ReadStays, NothingRead, ModelsRead, CurrentRead,
         PageGrows, Shown, Expired, Source

LEMMA CurrentPInv ==
  ASSUME IInv, PInv, Current
  PROVE  PInv'
<1>1. range.from \in Int /\ range.to \in Int /\ range' = range /\ stage' = "series" /\ UNCHANGED vars
  BY DEF Current, To, Idle, PInv, PageType
<1>2. UsesRollups(range.from)' = UsesRollups(range.from)
      /\ EverIn(range.from, range.to)' = EverIn(range.from, range.to)
      /\ Rolled(range.from, range.to)' = Rolled(range.from, range.to)
  BY <1>1 DEF UsesRollups, EverIn, Rolled, vars
<1>3. Read(range.from, range.to) \in SUBSET Int
  BY <1>1, TablesAreTimes DEF Read
<1>4. ~Expired => Read(range.from, range.to) = Source
  BY CountedIsSource
<1>5. QED
  BY <1>1, <1>2, <1>3, <1>4
     DEF Current, PInv, PageType, RolledIsOld, ReadStays, NothingRead, ModelsRead, CurrentRead,
         PageGrows, Shown, Expired, Source

LEMMA SeriesPInv ==
  ASSUME IInv, PInv, Series
  PROVE  PInv'
<1>1. range.from \in Int /\ range.to \in Int /\ range' = range /\ stage' = "shown" /\ UNCHANGED vars
  BY DEF Series, To, Idle, PInv, PageType
<1>2. UsesRollups(range.from)' = UsesRollups(range.from)
      /\ EverIn(range.from, range.to)' = EverIn(range.from, range.to)
      /\ Rolled(range.from, range.to)' = Rolled(range.from, range.to)
  BY <1>1 DEF UsesRollups, EverIn, Rolled, vars
<1>3. Read(range.from, range.to) \in SUBSET Int /\ UsesRollups(range.from) \in BOOLEAN
  BY <1>1, TablesAreTimes DEF Read, UsesRollups
<1>4. ~Expired => Read(range.from, range.to) = Source
  BY CountedIsSource
<1>5. PageType' /\ RolledIsOld' /\ ReadStays' /\ NothingRead' /\ ModelsRead' /\ CurrentRead'
  BY <1>1, <1>2, <1>3
     DEF Series, PInv, PageType, RolledIsOld, ReadStays, NothingRead, ModelsRead, CurrentRead,
         Expired, Source
<1>6. PageGrows'
  <2> SUFFICES ASSUME page'.rolled = page'.seriesRolled
               PROVE  /\ page'.rows \subseteq page'.models
                      /\ page'.models \subseteq page'.current
                      /\ page'.current \subseteq page'.series
    BY DEF PageGrows, Shown
  <2>1. page' = [page EXCEPT !.seriesRolled = UsesRollups(range.from),
                             !.series = Read(range.from, range.to)] /\ stage = "series"
    BY DEF Series
  <2>2. page.rolled = UsesRollups(range.from) /\ page'.series = Read(range.from, range.to)
        /\ page'.rows = page.rows /\ page'.models = page.models /\ page'.current = page.current
    BY <2>1 DEF PInv, PageType
  <2>3. ~Expired
    BY <2>2 DEF Expired
  <2>4. QED
    BY <1>4, <2>1, <2>2, <2>3 DEF PInv, ReadStays, ModelsRead, CurrentRead
<1>7. QED
  BY <1>5, <1>6 DEF PInv

\* A store, a tick or a step of maintenance under the page.
LEMMA LedgerPInv ==
  ASSUME IInv, IdleBound, PInv, [Next]_vars, UNCHANGED pageVars
  PROVE  PInv'
<1>1. now <= now' /\ ever \subseteq ever' /\ rollups \subseteq rollups'
  BY TablesGrow
<1>2. now \in Int /\ now' \in Int /\ range.from \in Int /\ RawRetention \in Int
  BY NextTypeOK, WindowAssumption DEF IInv, TypeOK, PInv, PageType
<1>3. UsesRollups(range.from) => UsesRollups(range.from)'
  BY <1>1, <1>2 DEF UsesRollups, pageVars
<1>4. Source \subseteq Source'
  BY <1>1 DEF Source, Rolled, EverIn, pageVars, HourFloor
<1>5. Expired => Expired'
  BY <1>3 DEF Expired, pageVars
<1>6. PageType' /\ NothingRead' /\ PageGrows'
  BY DEF PInv, PageType, NothingRead, PageGrows, Shown, pageVars, NoPage
<1>7. RolledIsOld'
  BY <1>3 DEF PInv, RolledIsOld, pageVars
<1>8. ReadStays' /\ ModelsRead' /\ CurrentRead'
  BY <1>4, <1>5 DEF PInv, ReadStays, ModelsRead, CurrentRead, pageVars
<1>9. QED
  BY <1>6, <1>7, <1>8 DEF PInv

-----------------------------------------------------------------------------
LEMMA PageInitPInv == PageInit => PInv
  BY DEF PageInit, PInv, PageType, RolledIsOld, ReadStays, NothingRead, ModelsRead, CurrentRead,
         PageGrows, Shown, Expired, NoPage, NoRange

\* To the ledger a step of the page is a stutter.
LEMMA PageStepIsLedgerStep == [PageNext]_allVars => [Next]_vars
  BY DEF PageNext, Load, Loading, Rows, Latencies, Models, Current, Series, Leave, Idle, allVars

LEMMA PageNextPInv ==
  ASSUME IInv, IdleBound, PInv, [PageNext]_allVars
  PROVE  PInv'
<1>1. CASE Load
  BY <1>1, LoadPInv
<1>2. CASE Loading
  BY <1>2, RowsPInv, LatenciesPInv, ModelsPInv, CurrentPInv, SeriesPInv DEF Loading
<1>3. CASE Leave
  BY <1>3, LeavePInv
<1>4. CASE Next /\ UNCHANGED pageVars
  BY <1>4, LedgerPInv
<1>5. CASE UNCHANGED allVars
  BY <1>5, LedgerPInv DEF allVars
<1>6. QED
  BY <1>1, <1>2, <1>3, <1>4, <1>5 DEF PageNext

\* The later number of a page counts no less (functions/ledger.ts, loadLedger,
\* over queries.ts), whatever is stored, rolled up or pruned between its reads.
THEOREM PageNumbersGrow ==
  ASSUME IdleBound
  PROVE  PageSpec => []PageGrows
<1>1. PageInit => IInv /\ PInv
  BY InitIInv, PageInitPInv DEF PageInit
<1>2. IInv /\ PInv /\ [PageNext]_allVars => IInv' /\ PInv'
  BY PageNextPInv, PageStepIsLedgerStep, NextIInv
<1>3. PInv => PageGrows
  BY DEF PInv
<1>4. QED
  BY <1>1, <1>2, <1>3, PTL DEF PageSpec

\* The page only reads: with it the ledger still is what Retention says, so each
\* of its theorems holds with the page, too.
THEOREM PageImplementsRetention == PageSpec => Spec
<1>1. PageInit => Init
  BY DEF PageInit
<1>2. QED
  BY <1>1, PageStepIsLedgerStep, PTL DEF PageSpec, Spec

-----------------------------------------------------------------------------
(* Sums of counts. *)

\* A set of naturals has a least element: what the induction below rests on.
LEMMA LeastExists ==
  ASSUME NEW S \in SUBSET Nat, S # {}
  PROVE  \E x \in S : \A y \in S : x <= y
<1>1. PICK x \in S : \A y \in S : ~(<<y, x>> \in OpToRel(<, Nat))
  BY NatLessThanWellFounded, WFMin, Zenon
<1>2. \A y \in S : ~(y < x)
  BY <1>1 DEF OpToRel
<1> QED  BY <1>2

\* Both start from the same and add f, one element of a part of T at a time.
AddAlike(sum, count, f, T) ==
  /\ sum[{}] = count[{}]
  /\ \A s \in SUBSET T : s # {} =>
       \E x \in s : sum[s] = f[x] + sum[s \ {x}] /\ count[s] = f[x] + count[s \ {x}]

\* A sum over a set that starts from zero and takes one element at a time is given
\* by these equations alone, if the set is finite.
LEMMA SumsAgree ==
  ASSUME NEW T, IsFiniteSet(T), NEW sum, NEW count, NEW f, AddAlike(sum, count, f, T)
  PROVE  sum[T] = count[T]
<1> DEFINE Bad == {Cardinality(s) : s \in {s \in SUBSET T : sum[s] # count[s]}}
<1> SUFFICES ASSUME sum[T] # count[T]  PROVE FALSE
  OBVIOUS
<1>1. \A s \in SUBSET T : IsFiniteSet(s) /\ Cardinality(s) \in Nat
  BY FS_Subset, FS_CardinalityType
<1>2. Bad \in SUBSET Nat /\ Cardinality(T) \in Bad
  BY <1>1
<1>3. PICK k \in Bad : \A j \in Bad : k <= j
  <2> HIDE DEF Bad
  <2>1. Bad # {}
    BY <1>2
  <2> QED  BY <1>2, <2>1, LeastExists
<1>4. PICK s \in SUBSET T : sum[s] # count[s] /\ k = Cardinality(s)
  BY <1>3
<1>5. s # {}
  BY <1>4 DEF AddAlike
<1>6. PICK x \in s : sum[s] = f[x] + sum[s \ {x}] /\ count[s] = f[x] + count[s \ {x}]
  BY <1>5 DEF AddAlike
<1>7. s \ {x} \in SUBSET T /\ Cardinality(s \ {x}) = k - 1 /\ k \in Nat
  BY <1>1, <1>4, <1>6, FS_RemoveElement
<1>8. sum[s \ {x}] # count[s \ {x}]
  BY <1>4, <1>6
<1>9. k - 1 \in Bad
  BY <1>7, <1>8
<1> QED
  <2> HIDE DEF Bad
  <2>1. k <= k - 1
    BY <1>3, <1>9
  <2> QED  BY <1>7, <2>1

\* The elements of a finite set, counted apart by what g says of them, are those of
\* which it says one of T.
LEMMA PartsAddUp ==
  ASSUME NEW S, IsFiniteSet(S), NEW T, IsFiniteSet(T), NEW g
  PROVE  SumFunction([b \in T |-> Cardinality({t \in S : g[t] = b})])
           = Cardinality({t \in S : g[t] \in T})
<1> DEFINE f == [b \in T |-> Cardinality({t \in S : g[t] = b})]
           Added(h, s) == LET x == CHOOSE x \in s : TRUE IN f[x] + h[s \ {x}]
           count == [s \in SUBSET T |-> Cardinality({t \in S : g[t] \in s})]
           Sums(h) == h = [s \in SUBSET T |-> IF s = {} THEN 0 ELSE Added(h, s)]
           sum == CHOOSE h : Sums(h)
<1>1. \A s \in SUBSET T : s # {} =>
        (CHOOSE x \in s : TRUE) \in s
  OBVIOUS
<1>2. \A s \in SUBSET T : \A x \in s : count[s] = f[x] + count[s \ {x}]
  <2> SUFFICES ASSUME NEW s \in SUBSET T, NEW x \in s
               PROVE  count[s] = f[x] + count[s \ {x}]
    OBVIOUS
  <2> DEFINE A == {t \in S : g[t] = x}
             B == {t \in S : g[t] \in s \ {x}}
  <2>1. {t \in S : g[t] \in s} = A \union B /\ A \intersect B = {}
    OBVIOUS
  <2>2. IsFiniteSet(A) /\ IsFiniteSet(B)
    BY FS_Subset
  <2>3. Cardinality(A) \in Nat /\ Cardinality(B) \in Nat
    BY <2>2, FS_CardinalityType
  <2>4. Cardinality(A \union B) = Cardinality(A) + Cardinality(B)
    <3> HIDE DEF A, B
    <3> QED  BY <2>1, <2>2, <2>3, FS_Union, FS_EmptySet
  <2>5. f[x] = Cardinality(A) /\ count[s \ {x}] = Cardinality(B)
        /\ count[s] = Cardinality({t \in S : g[t] \in s})
    OBVIOUS
  <2> QED  BY <2>1, <2>4, <2>5
<1>3. count[{}] = 0
  <2>1. {t \in S : g[t] \in {}} = {}
    OBVIOUS
  <2> QED  BY <2>1, FS_EmptySet
<1>4. Sums(count)
  <2>1. \A s \in SUBSET T : count[s] = IF s = {} THEN 0 ELSE Added(count, s)
    <3> HIDE DEF count, f
    <3> QED  BY <1>1, <1>2, <1>3
  <2>2. count = [s \in SUBSET T |-> count[s]]
    OBVIOUS
  <2> HIDE DEF count, Added
  <2> QED  BY <2>1, <2>2
<1>5. Sums(sum)
  <2> HIDE DEF Sums
  <2> QED  BY <1>4
<1>6. AddAlike(sum, count, f, T)
  <2> HIDE DEF sum, count, f
  <2>1. sum[{}] = 0
    BY <1>5
  <2>2. ASSUME NEW s \in SUBSET T, s # {}
        PROVE  \E x \in s : sum[s] = f[x] + sum[s \ {x}] /\ count[s] = f[x] + count[s \ {x}]
    <3>1. sum[s] = Added(sum, s)
      BY <1>5, <2>2
    <3> QED  BY <1>1, <1>2, <2>2, <3>1
  <2> QED  BY <1>3, <2>1, <2>2 DEF AddAlike
<1>7. sum[T] = count[T]
  <2> HIDE DEF sum, count, f
  <2> QED  BY <1>6, SumsAgree
<1>8. SumFunction(f) = sum[T]
  <2>1. DOMAIN f = T
    OBVIOUS
  <2> HIDE DEF f
  <2> QED  BY <2>1 DEF SumFunction, SumFunctionOnSet, FoldFunctionOnSet, MapThenFoldSet
<1>9. count[T] = Cardinality({t \in S : g[t] \in T})
  OBVIOUS
<1> QED  BY <1>7, <1>8, <1>9

-----------------------------------------------------------------------------
(* The grid the bars are drawn on. *)

LEMMA MultipleOnGrid ==
  ASSUME NEW d \in Nat \ {0}, NEW k \in Int
  PROVE  (d * k) % d = 0
  OBVIOUS

\* Rounded down, an instant is the last of the grid that is no later.
LEMMA FloorIs ==
  ASSUME NEW d \in Nat \ {0}, NEW t \in Int
  PROVE  /\ Floor(t, d) \in Int /\ Floor(t, d) <= t /\ t < Floor(t, d) + d
         /\ Floor(t, d) % d = 0
         /\ \A g \in Int : g % d = 0 /\ g <= t => g <= Floor(t, d)
<1> DEFINE q == t \div d
<1>1. q \in Int /\ t % d \in Int /\ t = d * q + (t % d) /\ 0 <= t % d /\ t % d < d
  OBVIOUS
<1> HIDE DEF q
<1>2. Floor(t, d) = d * q
  BY <1>1 DEF Floor
<1>3. d * q \in Int /\ d * q <= t /\ t < d * q + d
  BY <1>1
<1>4. (d * q) % d = 0
  BY <1>1
<1>5. ASSUME NEW g \in Int, g % d = 0, g <= t  PROVE g <= d * q
  <2> DEFINE p == g \div d
  <2>1. p \in Int /\ g = d * p
    BY <1>5
  <2> HIDE DEF p
  <2>2. d * p < d * (q + 1)
    BY <1>1, <1>5, <2>1
  <2>3. p <= q
    BY <1>1, <2>1, <2>2
  <2>4. d * p <= d * q
    BY <1>1, <2>1, <2>3
  <2> QED  BY <2>1, <2>4
<1> QED  BY <1>2, <1>3, <1>4, <1>5

\* An instant counted of a range, by itself or by its hour.
Inside(r, t) == (r.from <= t /\ t < r.to) \/ (r.from <= HourFloor(t) /\ HourFloor(t) < r.to)

\* Days begin with an hour, so no day an hour of the range is in begins after it.
LEMMA InsideIsDrawn ==
  ASSUME NEW r \in [from : Int, to : Int], NEW t \in Int, Inside(r, t)
  PROVE  Floor(t, Step(r)) \in Buckets(r)
<1> DEFINE d == Step(r)
           b == Floor(t, d)
           first == Floor(r.from, d)
<1>1. r.from \in Int /\ r.to \in Int
  OBVIOUS
<1>2. d \in Nat \ {0} /\ Hour \in Nat \ {0} /\ (d = Hour \/ d = Day) /\ Day % Hour = 0
  BY UnitAssumption, CalendarAssumption DEF Step
<1> HIDE DEF d
<1>3. /\ b \in Int /\ b <= t /\ b % d = 0
      /\ \A g \in Int : g % d = 0 /\ g <= t => g <= b
  BY <1>2, FloorIs
<1>4. first \in Int /\ first <= r.from /\ first % d = 0
  BY <1>1, <1>2, FloorIs
<1>5. /\ HourFloor(t) \in Int /\ HourFloor(t) <= t
      /\ \A g \in Int : g % Hour = 0 /\ g <= t => g <= HourFloor(t)
  BY <1>2, FloorIs DEF HourFloor, Floor
<1>6. b % Hour = 0
  <2> HIDE DEF b
  <2>1. CASE d = Hour
    BY <1>3, <2>1
  <2>2. CASE d = Day
    <3> DEFINE m == Day \div Hour
               q == b \div Day
    <3>1. Day \in Nat \ {0} /\ m \in Int /\ q \in Int /\ Day = Hour * m /\ b = Day * q
      BY <1>2, <1>3, <2>2
    <3> HIDE DEF m, q
    <3>2. b = Hour * (m * q) /\ m * q \in Int
      BY <1>2, <3>1
    <3>3. \A k \in Int : (Hour * k) % Hour = 0
      BY <1>2, MultipleOnGrid
    <3> QED  BY <3>2, <3>3
  <2> QED  BY <1>2, <2>1, <2>2
<1> HIDE DEF b, first
<1>7. first <= t
  BY <1>1, <1>4, <1>5 DEF Inside
<1>8. first <= b
  BY <1>3, <1>4, <1>7
<1>9. b <= HourFloor(t)
  BY <1>3, <1>5, <1>6
<1>10. b <= r.to - 1
  BY <1>1, <1>3, <1>5, <1>9 DEF Inside
<1>11. b \in first..(r.to - 1)
  BY <1>1, <1>3, <1>4, <1>8, <1>10
<1> QED  BY <1>3, <1>11 DEF Buckets, b, first, d

-----------------------------------------------------------------------------
(* What a page has read. *)

Times == 0..MaxTime

PageCounts ==
  /\ range \in [from : Int, to : Int]
  /\ page \in [rolled : BOOLEAN, rows : SUBSET Times, latencies : SUBSET Times,
               models : SUBSET Times, current : SUBSET Times, seriesRolled : BOOLEAN,
               series : SUBSET Times]
  /\ \A t \in page.series : Inside(range, t)

LEMMA PageInitCounts == PageInit => PageCounts
<1> SUFFICES ASSUME PageInit  PROVE PageCounts
  OBVIOUS
<1>1. range = NoRange /\ page = NoPage
  BY DEF PageInit
<1> QED  BY <1>1 DEF PageCounts, NoPage, NoRange

\* Every statement counts of what was stored by now.
LEMMA CountedAreTimes ==
  ASSUME TypeOK, NEW r, NEW rolled \in BOOLEAN
  PROVE  /\ Counted(r, rolled) \in SUBSET Times
         /\ Read(r.from, r.to) \in SUBSET Times
         /\ \A t \in Read(r.from, r.to) : Inside(r, t)
<1>1. requests \in SUBSET Times /\ rollups \in SUBSET Times
  BY BoundAssumption DEF TypeOK, Times
<1> HIDE DEF Times
<1>2. Raw(r.from, r.to) \in SUBSET Times /\ \A t \in Raw(r.from, r.to) : Inside(r, t)
  BY <1>1 DEF Raw, Inside
<1>3. Rolled(r.from, r.to) \in SUBSET Times /\ \A t \in Rolled(r.from, r.to) : Inside(r, t)
  BY <1>1 DEF Rolled, Inside
<1> QED  BY <1>2, <1>3 DEF Counted, Read

LEMMA PageNextCounts ==
  ASSUME TypeOK, PageCounts, [PageNext]_allVars
  PROVE  PageCounts'
<1> USE DEF PageCounts
<1>1. CASE Load
  <2>1. now \in Int
    BY DEF TypeOK
  <2>2. range' \in [from : Int, to : Int] /\ page' = NoPage
    BY <1>1, <2>1, AskedIsRange DEF Load
  <2> QED  BY <2>2 DEF NoPage
<1>2. CASE Leave
  BY <1>2 DEF Leave, NoPage, NoRange
<1>3. CASE Loading
  <2>1. range' = range
    BY <1>3 DEF Loading, Rows, Latencies, Models, Current, Series, To
  <2>2. /\ \A rolled \in BOOLEAN : Counted(range, rolled) \in SUBSET Times
        /\ Read(range.from, range.to) \in SUBSET Times
        /\ \A t \in Read(range.from, range.to) : Inside(range, t)
        /\ UsesRollups(range.from) \in BOOLEAN /\ page.rolled \in BOOLEAN
    BY CountedAreTimes DEF UsesRollups
  <2> HIDE DEF Times
  <2>3. CASE Rows
    BY <2>1, <2>2, <2>3 DEF Rows
  <2>4. CASE Latencies
    <3>1. {t \in Counted(range, FALSE) : t \notin FailedAt} \in SUBSET Times
      BY <2>2
    <3> QED  BY <2>1, <2>4, <3>1 DEF Latencies
  <2>5. CASE Models
    BY <2>1, <2>2, <2>5 DEF Models
  <2>6. CASE Current
    BY <2>1, <2>2, <2>6 DEF Current
  <2>7. CASE Series
    BY <2>1, <2>2, <2>7 DEF Series
  <2> QED  BY <1>3, <2>3, <2>4, <2>5, <2>6, <2>7 DEF Loading
<1>4. CASE UNCHANGED pageVars
  BY <1>4 DEF pageVars
<1> QED  BY <1>1, <1>2, <1>3, <1>4 DEF PageNext, allVars

\* What loadLedger has read: times that were stored, and of the series inside the range.
THEOREM PageCountsInvariant == PageSpec => [](TypeOK /\ PageCounts)
<1>1. PageInit => TypeOK /\ PageCounts
  BY InitTypeOK, PageInitCounts DEF PageInit
<1>2. (TypeOK /\ PageCounts) /\ [PageNext]_allVars => (TypeOK /\ PageCounts)'
  BY NextTypeOK, PageStepIsLedgerStep, PageNextCounts
<1> QED  BY <1>1, <1>2, PTL DEF PageSpec

LEMMA TimesFinite ==
  ASSUME NEW S \in SUBSET Times
  PROVE  IsFiniteSet(S)
<1>1. IsFiniteSet(Times)
  BY BoundAssumption, FS_Interval DEF Times
<1> QED  BY <1>1, FS_Subset

\* The bars of a page add up to the requests its series counted (queries.ts,
\* requestSeries), on any grid of hours or days.
THEOREM BarsAddUp == PageSpec => []SeriesLosesNothing
<1>1. PageCounts => SeriesLosesNothing
  <2> SUFFICES ASSUME PageCounts
               PROVE  SumFunction([b \in Buckets(range) |-> Bar(range, page.series, b)])
                        = Cardinality(page.series)
    BY DEF SeriesLosesNothing
  <2> DEFINE d == Step(range)
             g == [t \in page.series |-> Floor(t, d)]
             T == Buckets(range)
             S == page.series
  <2>1. S \in SUBSET Times /\ range \in [from : Int, to : Int] /\ \A t \in S : Inside(range, t)
    BY DEF PageCounts
  <2>2. IsFiniteSet(S)
    BY <2>1, TimesFinite
  <2>3. IsFiniteSet(T)
    <3>1. d \in Nat \ {0}
      BY UnitAssumption, CalendarAssumption DEF Step
    <3>2. Floor(range.from, d) \in Int /\ range.to - 1 \in Int
      <4> HIDE DEF d
      <4>1. range.from \in Int /\ range.to \in Int
        BY <2>1
      <4>2. Floor(range.from, d) \in Int
        BY <3>1, <4>1, FloorIs, Zenon
      <4> QED  BY <4>1, <4>2
    <3>3. IsFiniteSet(Floor(range.from, d)..(range.to - 1))
      BY <3>2, FS_Interval
    <3> QED  BY <3>3, FS_Subset DEF Buckets
  <2>4. \A t \in S : g[t] \in T
    BY <2>1, InsideIsDrawn DEF Times
  <2>5. \A b \in T : Bar(range, S, b) = Cardinality({t \in S : g[t] = b})
    <3>1. \A b \in T : {t \in S : Floor(t, d) = b} = {t \in S : g[t] = b}
      OBVIOUS
    <3> QED  BY <3>1 DEF Bar
  <2>6. {t \in S : g[t] \in T} = S
    BY <2>4
  <2>7. [b \in T |-> Bar(range, S, b)] = [b \in T |-> Cardinality({t \in S : g[t] = b})]
    <3> HIDE DEF S, T, g, d
    <3> QED  BY <2>5
  <2>8. SumFunction([b \in T |-> Cardinality({t \in S : g[t] = b})])
          = Cardinality({t \in S : g[t] \in T})
    <3> HIDE DEF S, T, g, d
    <3> QED  BY <2>2, <2>3, PartsAddUp
  <2> HIDE DEF S, T, g, d
  <2>9. SumFunction([b \in T |-> Bar(range, S, b)]) = Cardinality(S)
    BY <2>6, <2>7, <2>8
  <2> QED  BY <2>9 DEF S, T
<1> QED  BY <1>1, PageCountsInvariant, PTL

-----------------------------------------------------------------------------
(* The rows of a breakdown. *)

\* Every request of a page is of one row, so the rows add up to all of them.
LEMMA RequestsAddUp ==
  ASSUME PageCounts
  PROVE  SumFunction([c \in Clients |-> Breakdown(c).requests]) = Cardinality(page.rows)
<1> DEFINE S == page.rows
           T == Clients
<1>1. S \in SUBSET Times
  BY DEF PageCounts
<1>2. IsFiniteSet(S)
  BY <1>1, TimesFinite
<1>3. IsFiniteSet(T)
  <2> DEFINE f == [t \in S |-> ClientOf[t]]
  <2>1. f \in Surjection(S, T)
    BY DEF Surjection, Clients
  <2> HIDE DEF f, S, T
  <2> QED  BY <1>2, <2>1, FS_Surjection
<1>4. \A c \in T : Breakdown(c).requests = Cardinality({t \in S : ClientOf[t] = c})
  BY DEF Breakdown, Row, RolledRow, Of
<1>5. {t \in S : ClientOf[t] \in T} = S
  BY DEF Clients
<1> HIDE DEF S, T
<1>6. [c \in T |-> Breakdown(c).requests] = [c \in T |-> Cardinality({t \in S : ClientOf[t] = c})]
  BY <1>4
<1>7. SumFunction([c \in T |-> Cardinality({t \in S : ClientOf[t] = c})])
        = Cardinality({t \in S : ClientOf[t] \in T})
  BY <1>2, <1>3, PartsAddUp
<1>8. SumFunction([c \in T |-> Breakdown(c).requests]) = Cardinality(S)
  BY <1>5, <1>6, <1>7
<1> QED  BY <1>8 DEF S, T

\* The shares of a row are those of the models read after it, and no fewer.
LEMMA SharesFill ==
  ASSUME PageCounts, page.rows \subseteq page.models, NEW client
  PROVE  SumFunction(Breakdown(client).share) >= Breakdown(client).requests
<1> DEFINE own  == Of(client, page.rows)
           used == Of(client, page.models)
           T    == {ModelOf[t] : t \in used}
<1>1. used \in SUBSET Times /\ own \subseteq used
  BY DEF PageCounts, Of
<1>2. IsFiniteSet(used)
  BY <1>1, TimesFinite
<1>3. IsFiniteSet(T)
  <2> DEFINE f == [t \in used |-> ModelOf[t]]
  <2>1. f \in Surjection(used, T)
    <3> HIDE DEF used
    <3> QED  BY DEF Surjection
  <2> HIDE DEF f, used, T
  <2> QED  BY <1>2, <2>1, FS_Surjection
<1>4. /\ Breakdown(client).share = [m \in T |-> Cardinality({t \in used : ModelOf[t] = m})]
      /\ Breakdown(client).requests = Cardinality(own)
  BY DEF Breakdown, Row, RolledRow
<1>5. {t \in used : ModelOf[t] \in T} = used
  OBVIOUS
<1> HIDE DEF own, used, T
<1>6. SumFunction(Breakdown(client).share) = Cardinality(used)
  BY <1>2, <1>3, <1>4, <1>5, PartsAddUp
<1>7. Cardinality(own) <= Cardinality(used) /\ Cardinality(own) \in Nat /\ Cardinality(used) \in Nat
  <2>1. own \in SUBSET used /\ IsFiniteSet(own)
    BY <1>1, <1>2, FS_Subset
  <2> QED  BY <1>2, <2>1, FS_Subset, FS_CardinalityType
<1> QED  BY <1>4, <1>6, <1>7

\* The rows of a breakdown add up and each is filled by its models (queries.ts,
\* breakdown), whatever is stored, rolled up or pruned between the statements.
THEOREM BreakdownAddsUp ==
  ASSUME IdleBound
  PROVE  PageSpec => []RowsAddUp
<1>1. PageCounts /\ PageGrows => RowsAddUp
  BY RequestsAddUp, SharesFill DEF RowsAddUp, PageGrows
<1> QED  BY <1>1, PageCountsInvariant, PageNumbersGrow, PTL

-----------------------------------------------------------------------------
(* Ranks. *)

\* The elements of a finite set that is ordered through: P[t] holds those that come
\* no later than t.
Orders(P, S) ==
  /\ \A t \in S : t \in P[t]
  /\ \A t, u \in S : t \in P[u] \/ u \in P[t]
  /\ \A t, u \in S : t \in P[u] => P[t] \subseteq P[u]
  /\ \A t, u \in S : t \in P[u] /\ u \in P[t] => t = u

\* Each rank has its element, and a lower rank comes earlier.
LEMMA RanksExist ==
  ASSUME NEW S, IsFiniteSet(S), NEW P \in [S -> SUBSET S], Orders(P, S)
  PROVE  /\ \A i \in 1..Cardinality(S) : \E t \in S : Cardinality(P[t]) = i
         /\ \A t, u \in S : Cardinality(P[t]) <= Cardinality(P[u]) => t \in P[u]
<1> DEFINE n == Cardinality(S)
           rank == [t \in S |-> Cardinality(P[t])]
<1>1. n \in Nat
  BY FS_CardinalityType
<1>2. \A t \in S : IsFiniteSet(P[t]) /\ rank[t] \in 1..n
  <2> SUFFICES ASSUME NEW t \in S  PROVE IsFiniteSet(P[t]) /\ rank[t] \in 1..n
    OBVIOUS
  <2>1. P[t] \in SUBSET S /\ t \in P[t]
    BY DEF Orders
  <2>2. IsFiniteSet(P[t]) /\ Cardinality(P[t]) <= n
    BY <2>1, FS_Subset
  <2>3. Cardinality(P[t]) \in Nat /\ Cardinality(P[t]) # 0
    BY <2>1, <2>2, FS_CardinalityType, FS_EmptySet
  <2> QED  BY <1>1, <2>2, <2>3
<1>3. ASSUME NEW t \in S, NEW u \in S, rank[t] <= rank[u]
      PROVE  t \in P[u]
  <2> SUFFICES ASSUME t \notin P[u]  PROVE FALSE
    OBVIOUS
  <2>1. u \in P[t] /\ P[u] \subseteq P[t] /\ t \in P[t]
    BY DEF Orders
  <2>2. P[u] \in SUBSET P[t] /\ P[u] # P[t]
    BY <2>1
  <2>3. Cardinality(P[u]) <= Cardinality(P[t]) /\ Cardinality(P[u]) # Cardinality(P[t])
    BY <1>2, <2>2, FS_Subset
  <2>4. rank[t] \in Int /\ rank[u] \in Int /\ rank[t] = Cardinality(P[t]) /\ rank[u] = Cardinality(P[u])
    BY <1>1, <1>2
  <2> HIDE DEF rank
  <2> QED  BY <1>3, <2>3, <2>4
<1>4. rank \in Injection(S, 1..n)
  <2>1. ASSUME NEW t \in S, NEW u \in S, rank[t] = rank[u]
        PROVE  t = u
    <3>1. rank[t] <= rank[u] /\ rank[u] <= rank[t]
      <4>1. rank[t] \in Int /\ rank[u] \in Int
        BY <1>1, <1>2
      <4> HIDE DEF rank
      <4> QED  BY <2>1, <4>1
    <3>2. t \in P[u] /\ u \in P[t]
      <4> HIDE DEF rank
      <4> QED  BY <1>3, <3>1
    <3> QED  BY <3>2 DEF Orders
  <2>2. rank \in [S -> 1..n]
    BY <1>2
  <2> HIDE DEF rank
  <2> QED  BY <2>1, <2>2 DEF Injection, IsInjective
<1>5. rank \in Surjection(S, 1..n)
  <2>1. IsFiniteSet(1..n) /\ Cardinality(1..n) = n
    BY <1>1, FS_Interval
  <2> HIDE DEF rank
  <2> QED  BY <1>4, <2>1, FS_Injection DEF n
<1>6. \A i \in 1..n : \E t \in S : rank[t] = i
  <2> HIDE DEF rank, n
  <2> QED  BY <1>5 DEF Surjection
<1> QED  BY <1>3, <1>6

\* The latencies of a row are as many as were measured, and in order.
LEMMA LatencyIsSorted ==
  ASSUME PageCounts, NEW client
  PROVE  LET n == Cardinality(Measured(client))
         IN  /\ n \in Nat /\ Latency(client) \in [1..n -> Int]
             /\ \A j \in 1..n : \A i \in 1..j : Latency(client)[i] <= Latency(client)[j]
<1> DEFINE M == Measured(client)
           n == Cardinality(M)
           P == [t \in M |-> {u \in M : NoSlower(u, t)}]
           At(i) == CHOOSE t \in M : Cardinality(P[t]) = i
<1>1. M \in SUBSET Times
  BY DEF Measured, Of, PageCounts
<1>2. IsFiniteSet(M) /\ n \in Nat
  BY <1>1, TimesFinite, FS_CardinalityType
<1>3. \A t \in M : t \in Int /\ LatencyOf[t] \in Int
  BY <1>1, LatencyAssumption DEF Times, None
<1> HIDE DEF M
<1>4. P \in [M -> SUBSET M] /\ Orders(P, M)
  <2>1. \A t, u \in M : t \in P[u] <=> NoSlower(t, u)
    OBVIOUS
  <2>2. \A t, u \in M : NoSlower(t, u) \/ NoSlower(u, t)
    BY <1>3 DEF NoSlower
  <2>3. \A t, u, v \in M : NoSlower(t, u) /\ NoSlower(u, v) => NoSlower(t, v)
    BY <1>3 DEF NoSlower
  <2>4. \A t, u \in M : NoSlower(t, u) /\ NoSlower(u, t) => t = u
    BY <1>3 DEF NoSlower
  <2>5. P \in [M -> SUBSET M]
    OBVIOUS
  <2> HIDE DEF P
  <2> QED  BY <2>1, <2>2, <2>3, <2>4, <2>5 DEF Orders
<1> HIDE DEF P, n
<1>5. /\ \A i \in 1..n : \E t \in M : Cardinality(P[t]) = i
      /\ \A t, u \in M : Cardinality(P[t]) <= Cardinality(P[u]) => t \in P[u]
  BY <1>2, <1>4, RanksExist DEF n
<1>6. \A i \in 1..n : At(i) \in M /\ Cardinality(P[At(i)]) = i
  BY <1>5
<1> HIDE DEF At
<1>7. ASSUME NEW j \in 1..n, NEW i \in 1..j
      PROVE  LatencyOf[At(i)] <= LatencyOf[At(j)]
  <2>1. i \in 1..n /\ i <= j
    BY <1>2
  <2>2. At(i) \in M /\ At(j) \in M /\ At(i) \in P[At(j)]
    BY <1>5, <1>6, <2>1
  <2>3. NoSlower(At(i), At(j))
    BY <2>2 DEF P
  <2> QED  BY <1>3, <2>2, <2>3 DEF NoSlower
<1>8. Latency(client) = [i \in 1..n |-> LatencyOf[At(i)]]
  <2>1. \A t \in M : P[t] = {u \in M : NoSlower(u, t)}
    BY DEF P
  <2>2. \A i \in 1..n : At(i) = CHOOSE t \in M : Cardinality({u \in M : NoSlower(u, t)}) = i
    BY <2>1 DEF At
  <2>3. Latency(client) =
          [i \in 1..n |-> LatencyOf[CHOOSE t \in M : Cardinality({u \in M : NoSlower(u, t)}) = i]]
    BY DEF Latency, M, n
  <2> QED  BY <2>2, <2>3
<1>9. \A i \in 1..n : LatencyOf[At(i)] \in Int
  BY <1>3, <1>6
<1>10. \A j \in 1..n : \A i \in 1..j : i \in 1..n
  BY <1>2
<1> QED  BY <1>2, <1>7, <1>8, <1>9, <1>10 DEF n, M

NearestRank(n, p) == Max({1, (p * n + 99) \div 100})

\* The nearest rank of 50 and of 95 hundredths is a rank, and no less than that part.
LEMMA RankIs ==
  ASSUME NEW n \in Nat \ {0}, NEW p \in {50, 95}
  PROVE  /\ NearestRank(n, p) \in 1..n /\ NearestRank(n, p) * 100 >= p * n
         /\ NearestRank(n, p) = (p * n + 99) \div 100
<1> DEFINE k == (p * n + 99) \div 100
<1>1. k \in 1..n /\ k * 100 >= p * n
  <2>1. CASE p = 50
    BY <2>1
  <2>2. CASE p = 95
    BY <2>2
  <2> QED  BY <2>1, <2>2
<1> HIDE DEF k
<1>2. \E x \in {1, k} : \A y \in {1, k} : x >= y
  BY <1>1
<1>3. Max({1, k}) \in {1, k} /\ \A y \in {1, k} : Max({1, k}) >= y
  BY <1>2, Zenon DEF Max
<1>4. Max({1, k}) = k
  BY <1>1, <1>3
<1> QED  BY <1>1, <1>4 DEF k, NearestRank

\* At a rank of a sequence in order, so much of it is no greater.
LEMMA PercentileIs ==
  ASSUME NEW n \in Nat \ {0}, NEW s \in [1..n -> Int],
         \A j \in 1..n : \A i \in 1..j : s[i] <= s[j],
         NEW p \in {50, 95}
  PROVE  /\ Len(s) = n /\ Percentile(s, p) = s[NearestRank(n, p)]
         /\ Cardinality({i \in DOMAIN s : s[i] <= Percentile(s, p)}) * 100 >= p * Len(s)
<1> DEFINE k == NearestRank(n, p)
           within == {i \in DOMAIN s : s[i] <= s[k]}
<1>1. s \in Seq(Int) /\ DOMAIN s = 1..n
  BY SeqDef
<1>2. Len(s) = n
  <2>1. Len(s) \in Nat /\ DOMAIN s = 1..Len(s)
    BY <1>1
  <2>2. n \in 1..Len(s) /\ (Len(s) # 0 => Len(s) \in 1..n)
    BY <1>1, <2>1
  <2> QED  BY <2>1, <2>2
<1>3. Percentile(s, p) = s[k]
  <2>1. s # <<>>
    BY <1>1
  <2> QED  BY <1>2, <2>1 DEF Percentile, NearestRank
<1>4. k \in 1..n /\ k * 100 >= p * n
  BY RankIs
<1> HIDE DEF k
<1>5. 1..k \in SUBSET within
  BY <1>1, <1>4
<1>6. Cardinality(within) \in Nat /\ k <= Cardinality(within)
  <2>1. IsFiniteSet(1..n) /\ Cardinality(1..k) = k
    BY <1>4, FS_Interval
  <2>2. within \in SUBSET (1..n)
    BY <1>1
  <2>3. IsFiniteSet(within)
    <3> HIDE DEF within
    <3> QED  BY <2>1, <2>2, FS_Subset
  <2> HIDE DEF within
  <2>4. Cardinality(1..k) <= Cardinality(within)
    BY <1>5, <2>3, FS_Subset
  <2>5. Cardinality(within) \in Nat
    BY <2>3, FS_CardinalityType
  <2> QED  BY <2>1, <2>4, <2>5
<1>7. Cardinality(within) * 100 >= p * n
  <2> HIDE DEF within
  <2>1. p * n \in Int /\ k \in Int
    BY <1>4
  <2> QED  BY <1>4, <1>6, <2>1
<1> QED  BY <1>2, <1>3, <1>7 DEF k

\* The percentiles of a row are of the latencies read after it (queries.ts,
\* percentile), however many of them are left.
THEOREM PercentilesRanked == PageSpec => []PercentilesHold
<1>1. PageCounts => PercentilesHold
  <2> SUFFICES ASSUME PageCounts, ~page.rolled, NEW client \in Clients, Latency(client) # <<>>
               PROVE  LET sorted == Latency(client)
                          row    == Breakdown(client)
                          within(ms) == Cardinality({i \in DOMAIN sorted : sorted[i] <= ms})
                      IN  /\ within(row.p50) * 100 >= 50 * Len(sorted)
                          /\ within(row.p95) * 100 >= 95 * Len(sorted)
                          /\ row.p50 <= row.p95
    BY DEF PercentilesHold
  <2> DEFINE s == Latency(client)
             n == Cardinality(Measured(client))
             k(p) == NearestRank(n, p)
  <2>1. /\ Breakdown(client).p50 = Percentile(s, 50)
        /\ Breakdown(client).p95 = Percentile(s, 95)
    BY DEF Breakdown, Row, RolledRow
  <2>2. /\ n \in Nat /\ s \in [1..n -> Int]
        /\ \A j \in 1..n : \A i \in 1..j : s[i] <= s[j]
    BY LatencyIsSorted
  <2> HIDE DEF s, n
  <2>3. n # 0
    <3> SUFFICES ASSUME n = 0  PROVE FALSE
      OBVIOUS
    <3>1. s = <<>>
      BY <2>2
    <3> QED  BY <3>1 DEF s
  <2>4. \A p \in {50, 95} :
          /\ Len(s) = n /\ Percentile(s, p) = s[k(p)]
          /\ Cardinality({i \in DOMAIN s : s[i] <= Percentile(s, p)}) * 100 >= p * Len(s)
    <3>1. n \in Nat \ {0}
      BY <2>2, <2>3
    <3> QED  BY <2>2, <3>1, PercentileIs
  <2>5. \A p \in {50, 95} : k(p) \in 1..n
    BY <2>2, <2>3, RankIs
  <2>6. k(50) <= k(95)
    <3>1. n \in Nat \ {0}
      BY <2>2, <2>3
    <3>2. k(50) = (50 * n + 99) \div 100 /\ k(95) = (95 * n + 99) \div 100
      BY <3>1, RankIs
    <3> HIDE DEF k
    <3> QED  BY <3>1, <3>2
  <2> HIDE DEF k
  <2>7. Percentile(s, 50) <= Percentile(s, 95)
    <3>1. k(50) \in 1..k(95) /\ k(95) \in 1..n
      BY <2>2, <2>5, <2>6
    <3> QED  BY <2>2, <2>4, <3>1
  <2> QED  BY <2>1, <2>4, <2>7 DEF s
<1> QED  BY <1>1, PageCountsInvariant, PTL
=============================================================================
