# Verification of gatewai-console

gatewai-console is one process beside an LLM gateway: it collects the gateway's
usage records into a SQLite ledger, watches the quota of the gateway's
credentials, raises alerts, and draws all of it on three pages. This directory
holds TLA+ models of that process, the TLC runs that check them and the TLAPS
proofs that carry the most important results to every value of the constants.
Paths below are relative to `src/`.

    tlc -workers 2 -config MCUsagePop.cfg MCUsagePop     # one run
    tlapm UsagePopProofs.tla                             # one proof module

`PROJECT.json` lists the components, runs, mutants, hazards and theorems, and
maps every definition to the lines it models.

## The system

| part | state | operations | talks to |
|---|---|---|---|
| pop loop (`server/ledger/collector.ts`) | tables `requests`, `client_keys`; `collector_state` rows `rows_written`, `last_pop_*`, `error:pop`, `error_at:pop` | every 5 s `popOnce`: pop up to 500 records, insert, count, stamp, clear error | gateway `/usage-queue`, which removes what it returns |
| snapshot loop | tables `credentials`, `quota_snapshots`; `last_snapshot_at`, its error rows | every 30 s `snapshotOnce`: read pools, upsert, record changed quotas, stamp, run alerts | `ManagementApi.pools`, alerts |
| maintenance loop | `request_rollups`, `requests`, `last_maintenance_at` | hourly `maintainOnce`: recompute the rollups of the last 48 h below the newest row, prune rows older than 90 days | the table the pop loop writes |
| ledger queries (`server/ledger/queries.ts`) | none | summaries, breakdowns, series, quota history | raw rows or rollups, by the start of the range |
| alerts (`server/alerts`) | `alert_state`, `alert_incidents`; the rules file | one pass per snapshot cycle: evaluate, apply crossings, mail, clear missing, heartbeats | pools answer, collector state, mail and heartbeat endpoints |
| live reads (`server/management/api.ts`, `live-read.ts`) | in memory: a slot and an in-flight call per key | `apiCall`: answer a fresh slot, else share one call; 429s back off | providers, through the gateway |
| gateway client (`server/management`) | none | reads with two retries, destructive pop and actions without | gateway |
| quota and status views | none | fold headers and bodies into windows, a status, a runway | - |
| pools page (`routes/index.tsx`, `components/pools/card.tsx`, `functions/pools.ts`) | per card: pending, confirming, outcome; the shown view | reset, refresh, websocket switch; reloads by action and by timer | gateway client |
| ledger page (`routes/ledger.tsx`, `functions/ledger.ts`) | the shown view | one load: range, breakdown, summaries, series, history | ledger queries |
| health (`server/health.ts`) | none | shows the newest error and the lag | `collector_state` of all three loops |
| client registry, migrations, runtime | file cache, schema, layers | labels; start and stop of the loops | - |

The three loops are fibers of one runtime over one SQLite connection. They and
the page loads interleave at every asynchronous point, hence between any two SQL
statements. A loop catches every cause, notes it and goes on; only an
interruption ends it. The process may die anywhere; the database survives, all
else is lost.

What is hard here, and what each part therefore owes:

* **The pop is destructive.** Between the reply and the commit, a batch exists in
  memory only. No record may be handed over twice or stored in part; what the
  counters and stamps say must be in the ledger; a failure must show.
* **Four statements, no transaction, per pop cycle.** Each pair of neighbours is a
  place to break off.
* **Maintenance deletes and recomputes.** It deletes rolled hours whose raw rows
  it may have pruned; readers choose between two tables by the clock. Every
  request has to stay counted.
* **An alert pass is a long chain with side effects.** It may break off anywhere
  and is never resumed; state, incidents, mails and heartbeats must agree again.
* **Observations come from two sources with two clocks.** A quota is dated by the
  headers or by the poll, so the moments of a credential's snapshots may run
  backwards, though they are compared and cut by id.
* **Shared reads.** Loops and pages read one slot at once; replies, backoff and
  waiters must not get in each other's way.
* **One error for three loops.** Each loop writes and clears two rows of its own, in
  four statements; only the newest is shown. A healthy loop must not hide a failing
  one, and the one rule that notices silence is run by a loop that may fail itself,
  on a state it read before other rules sent their mails.
* **Actions that may have happened.** A reset, refresh or switch that times out may
  have been done, or may be done later; none may be sent twice for one click. The reload
  after it runs in the background and may have read too early; a later one must show
  what the action changed.
* **A page is many statements.** A load of the ledger page reads each of its numbers in
  a statement of its own while loops store, roll up and prune.

## The modules

### UsagePop, RecordDelivery, UsagePopProofs

`UsagePop` is `popOnce` with its loop, statement by statement: `Pop` (the queue
shrinks, malformed records fall out), `Insert` (one transaction, `INSERT OR
IGNORE` by request id), `Count`, `StampAt`, `StampCount`, `Clear`, `ClearAt`; on
failure `Note`, `NoteAt`. `pc` is the next statement, `batch` and `written` the
cycle's local variables. `PopRefused`, `PopReplyLost`, `StatementFails`,
`NoteFails`, `Crash` and `Start` are the failures. The gateway's queue (`Offer`,
`Expire`) is external. `last_pop_at` is represented by the batch it was stamped
for, since that is what it vouches for.

`RecordDelivery` is the abstract promise: a record is queued, handed over, and
lands or is lost, each for good and batch by batch. `UsagePop` implements it with
`status <- Status` (property `HandedOverOnce`).

### Retention

`maintainOnce` (`ReadNewest`, `RollupSince`, `Prune`, `Stamp`, `Abort`) against
`Store`, the pop loop's insert seen from here, at any moment. A request is its
timestamp. A rollup row is a sum; `rollups` is the set of requests the sums
count, which is what deleting and recomputing hours changes. `Read`,
`ReadPrevious` and `Comparable` are what `queries.ts` and `functions/ledger.ts`
read back.

The environment is named: `Late` (a record is stored at most so long after its
timestamp: the queue keeps 60 s), `MaintainGap` (a pass gets to its rollup at
least so often), and `MaxIdle` (the newest stored request is never older).
`HorizonAssumption` says that a request is rolled up before the 48 h have passed
it. `IdleBound` says that `MaxIdle` plus the horizon and an hour fit into the
retention, that is traffic never pauses for about 88 days.

### Alerts, AlertsProofs

`runAlerts`: `Begin` reads rules, pools and states and evaluates (`Verdict`);
`Apply` is one transaction per pair (`Fire`, `Clear`, `NoCrossing`), followed by
`Mail` on a crossing; `SelectMissing`, `ClearMissingState`,
`ClearMissingIncident`, `EndMissing` are the statements of `clearMissing`; `Beat`
posts a heartbeat, which may fail; `End`. `Break` ends the pass anywhere and keeps
what is committed. With the gateway out (`Outage`) only collector rules are
applied. Levels are integers around the line and the margin, so that the
hysteresis of `evaluate.ts` is there in full. The rules file is read by every pass and
may be `Unusable`, which is the same as empty. Whether the stalled rule's anchor is
overdue is a free choice here; `Health` has its clock.

### LiveRead, LiveReadProofs

One slot of `apiCall` with all of `live-read.ts`. A reader is answered by a fresh
slot (`AskFresh`), or runs the call, or waits for the one that runs (`Ask`). The
call may be retried (`Retry`) and ends in `ReplyOk`, `ReplyLimited` (with any
`Retry-After`) or `ReplyMiss`; `Finish` gives its outcome to everybody who waits.
A value is the moment the provider was read at, so an older answer can be told
from a newer one. `limits`, `notBefore` and `good` are histories: what the
provider has asked for and said, kept apart from what the slot remembers of it.

### Snapshots, ChangeLog, and SnapshotsProofs for Snapshots and Runway

`snapshotOnce`: `Poll` observes each listed credential from its newest headers or
from a usage read dated with the poll; `UpsertNext` and `RecordNext` go through the
credentials one statement at a time; `Stamp` writes `last_snapshot_at`; `BreakOff`
is a failing statement or a crash (the loop carries nothing over, so both are the
same), `PollFails` an outage. The clock stands at the last poll. `HistoryIds` and
`Points` are `quotaHistory` over the rows that are left behind. Codex- and
Claude-like credentials are `Metered` and `Signalled`, xAI-like ones `Metered`
only. A usage read may be missing at any poll: the process may have restarted, or
the body decoded to nothing. A header snapshot always carries its moment here.

`ChangeLog` is the abstract promise: logs that only grow, by changes at their end, and
are vouched for while they end with what was observed. `Snapshots` implements it without
the moments, with `log <- Log` and `vouched <- Vouched` (property `LogsOnlyChanges`).

### Runway

`estimateRunway` over the points `Snapshots!Points` yields for one window. Rates are
kept as fractions (`rise` over `span`), so comparing two estimates is exact. Nothing
but its test calls the function at this commit; it is checked as what it promises.

### Health, HealthProofs

The error rows and the pace of all three loops on one clock in ticks. A cycle of a
stage `StartCycle`s when due, is `Called` or `Unanswered`, `Stored`, then clears its
two rows (`Clear`, `ClearAt`) or writes them (`Note`, `NoteAt`); each statement may fail
(`StoreFails`, `ClearFails`, `NoteFails`), time passes only while nothing is overdue
(`Tick`), and the process may `Die` and `Start`. Of the snapshot's alert pass, run also
when the gateway is out, the stalled rule is kept, in the steps the code has:
`ReadCollector` (`run.ts:27`) reads the anchor, `Apply` (`run.ts:46`) evaluates and
writes the rule's state after whatever rules come before it have done, `EndPass` is the
rest, and `PassFails` breaks off anywhere between. One stalled rule is configured and
stays. `Shown` is the error `readCollectorState` picks, `Lag` the seconds of /healthz.
`noted` is a history: the newest error a stage has managed to write and not yet
cleared. So is `overdueAt`: when last the collector was silent for too long.

Since the loops interleave between the two, a pop may be stored after the pass has read
and before it applies. The rule then starts to fire, with its mail, while /healthz shows
a lag near zero; the next pass takes it back. `FiresOnlyOverdue` therefore allows that
case, and `AlarmEnds` bounds how long such an alarm, or any whose silence is over, may
stand.

### PoolActions, PoolActionsProofs

One credential's card from click to reload. `Act` refuses while an action is pending;
the reset takes two clicks. A call's request is at the gateway until it is done
(`Execute`), refused (`Refuse`) or nothing (a lost request is one that stays). Its
answer settles the card (`Answer`), is one the console cannot read (`Unreadable`),
does not come in time (`TimeOut`), or the browser loses the console (`Reject`). Every
settled action invalidates the router, as do the timer (`Refresh`), other cards
(`OtherSettles`) and a fault's `Retry`. `card.tsx:71` calls `router.invalidate()`
without `sync`, so the reload of a page that is there runs in the background: the call
resolves before the loader has, which ends the card's transition (`EndTransition`), and
a load that already runs is joined (`Invalidate`), not replaced. `LoadRead` and
`LoadShow` are that load; one that fails (`LoadFails`) takes the cards away with their
state. Gateway, router and React are external; what the router does is taken from its
use here and from its documented behaviour, since its source is not in the repository.
What the websocket switch is set to plays no part in it and is left out.
`covers` and `shows` are histories: which calls had been answered when a load read the
gateway.

A card can thus say "done" over a view that was read before the action, until the next
reload, up to 30 s later. `AnswerShows` is what holds: such a view is followed by one
read after the answer.

### Quota, QuotaProofs

`quotaOf` with the folding of header snapshots into windows, `withClaudeUsage`,
`withCodexUsage`, `withXaiBilling`, and the summary and order of the pools page. Its
state is what the gateway has captured (`Reply`); `Pools` is a read in which each usage
read brings something or nothing. Windows are functions from label to level and status,
the loop over the snapshots is a recursive function (`Merging`), and what the code sorts
is listed by rank (`Listing`). The assumptions say what the code makes sure of (levels
are percents) and that sorting is stable: a place and a label's rank belong to one.

### LedgerPage, and LedgerPageProofs for it and Retention

`loadLedger` statement by statement (`Rows`, `Latencies`, `Models`, `Current`, `Series`)
over `Retention`, which goes on meanwhile. A statement returns the set of requests it
counts; the numbers drawn (`Row`, `RolledRow`, `Percentile`, `Buckets`, `Bar`) are
operators on these sets; the sample of a percentile is ordered by the ranks of its
requests. `Resolve` is `resolveRange` with its date-only end and its
fallback.

## The runs

| run | shows |
|---|---|
| `pop` | bookkeeping, the hand-over and progress of the pop loop, and that errors clear |
| `retention` | every request stays counted, every range is read in full |
| `alerts` | states, incidents, heartbeats and hysteresis over passes that break off |
| `live_read` | backoff, sharing, freshness and progress of a slot |
| `snapshots` | the log of changes and its stamps, every range of the history, and the runway |
| `health` | the newest error is shown, a silent collector is reported in time and its alarm ends in time |
| `actions` | an action happens at most once, settles, and is followed by a fresh view |
| `quota` | the newest window per label, and one order for summary and cards |
| `ledger_page` | the numbers of one page fit each other |
| `retention_previous` (violation) | deltas against a range that is partly pruned |
| `alerts_orphan` (violation) | an incident nobody closes |
| `snapshots_order` (violation) | a range that loses a snapshot observed in it |

Bounds, and why they are enough:

* `pop`: four records, of which two share a request id and one is malformed; pops
  of two, so batches are full, short and mixed; two faults and one crash, so a
  failure can hit the note of a failure, and a restart can follow a half-cleared
  error.
* `retention`: hours of two units, a horizon of one hour, and a retention exactly
  as long as `IdleBound` requires (`TightIdleBound`), over two retentions of
  time. One unit less of retention breaks `HistoryKept`.
* `alerts`: a remaining rule, a status rule with a heartbeat and the stalled rule;
  levels on both sides of line and margin; a rules file that changes or is unusable;
  credentials and windows that vanish and return; one broken pass, after which
  others run in full.
* `live_read`: three readers, three strikes, so that the cap of the strikes is
  passed; a cap on the wait below the exponential one and below one header; a header
  of zero; a clock of eight units, about four backoffs; one retry (two in the code,
  the second adds nothing but a later moment).
* `snapshots`: three polls, the least in which an observation falls back behind an
  earlier one and is read back with a point before; two quotas that share one window
  and a third without any; two credentials, so that a cycle can break off between
  them. The runway looks back over two units and wants points one apart, so the window
  of the rate starts before, at and after a point.
* `health`: a pop and a snapshot in each tick, the pop up to a tick longer, maintenance
  every four; a rule of one minute, which a slow pop alone sets off; one failed statement
  and one crash in five ticks, enough for a note cut in two followed by a restart while
  other loops note and clear theirs. `Delay` is one tick, two with the fault, so
  `StallReported` asks for the report from tick three on, also of a process that
  restarted in the first two ticks, or lost a pass to the fault. A stall can begin, be
  reported over a state read too early, and end again. Snapshots that take time are left
  to the theorems, which hold for every pace.
* `actions`: two clicks, of any kind, and any number of reloads: an answer can overtake
  another, and a load that read too early can be under way when an action ends.
* `quota`: three replies with headers over a Claude account with snapshots of two
  models, two Codex accounts and an xAI account; each usage read may be there or not,
  empty, or full. Three replies put a file's and two models' snapshots in every order.
  The one Codex header there is names both its windows alike; a placeholder or a tier
  without minutes occurs in the theorem only.
* `ledger_page`: the retention of `retention` over seven units, three requests of two
  clients and two models, one failed, one load; ranges of a preset, of a day past
  retention, off the hour, and inverted.

Fairness is assumed in three places. `UsagePop!FairSpec` has weak fairness of the
running cycle and of `Start`: the runtime keeps forked fibers running, every statement
returns, and a supervisor restarts the process; nothing is assumed of the gateway or
of failures. `LiveRead!FairSpec` has weak fairness of `Reply`: every request has a
timeout and a bounded number of retries. `PoolActions!FairSpec` has weak fairness of
`TimeOut`, since the request timeout ends the wait for a reply's head and fetch's own
limit that for a body which stalls; of `LoadRead` and `LoadShow`, since a load, whose
reads time out too, comes to an end; of `EndTransition`, since a background load holds
nothing up; and of `Refresh`, since the timer of a visible tab goes on. A load may
fail forever all the same, and takes the card with it. Nothing is assumed of gateway
and operator. The other modules check safety only.

Deadlock is checked in every run but `health`, whose clock stops at its
bound. The bounds are guards of the actions that count (faults, crashes, the clock)
and never of a recovery.

## What disagrees with the code's own words

1. *Comparable, but not complete.* `functions/ledger.ts:57` calls the previous range
   fully inside stored history. It is, but `breakdown` reads it from the raw table
   of the current range, from which it may be pruned (`retention_previous`).
2. *An orphan incident.* `alerts.test.ts:158` says a vanished subject's incident is
   closed. A pass that breaks off between the two statements of `clearMissing` has
   cleared the row by which the next pass would find it (`alerts_orphan`).
3. *The point before the range.* `queries.ts:366` adds one point before the range.
   It is found by the greatest id, while moments do not grow with ids, so a row that
   was stored late with an old moment cuts off rows inside the range
   (`snapshots_order`). `HistoryComplete` is what holds for histories in order.

More places where the code does less than a comment may suggest, kept as remarks
because the properties are stated for what does hold:

* `noteError` swallows its own failure (`collector.ts:38`), so a lost batch shows as an
  error only when the database accepts the note: `NotedFailureShows`, theorem
  `FailureShows`.
* "Rollups keep the history" (`store.ts:170`) needs traffic: `rollupSince` deletes from
  48 h below the *newest row* on, `pruneRequests` goes by the clock. After an idle stretch
  near the retention window rolled hours are recomputed without their rows. `IdleBound`
  is a sufficient condition.
* `clearMissing` sends no mail (`run.ts:61`), so a pair may mail "firing" twice.
* "Stalled" may start to fire over a collector that has just spoken (`run.ts:27`, 46), and
  "done" may stand over a view from before (`card.tsx:71`); both are corrected by the
  next pass and the next reload: see Health and PoolActions above.

## What is proved

All theorems hold for every value of the constants that meets the assumptions
named in the modules. Each proof is an inductive invariant, its initial
condition, one lemma or step per action, and the temporal step at the end.

* **UsagePopProofs** (`PopInv`). The counters are about cardinalities, so the proof
  rests on a lemma about `INSERT OR IGNORE` (the rows written are those not there
  before). `BatchStored` (after the insert the batch is in the table), `StampedFirst`
  (errors are cleared after the stamp) and `NoteInOrder` (which of the two error rows
  may be there alone, and when) strengthen the properties until a step preserves them;
  `OnePlace` (a record is queued, held, landed or lost) makes the refinement mapping a
  function. Proved: `TypeOK`, `RowsWrittenAccounted`, `LastPopIsStored`,
  `NotedFailureShows`, `ErrorClearedByStoredCycle`, and `HandedOverOnce`, that is the
  implementation of `RecordDelivery`.
* **LedgerPageProofs**, the tables (`IInv`). History is kept because a pruned row is old
  (`PrunedIsOld`), an unrolled one young (`UnrolledIsYoung`), and the floor of a pass
  lies between (`ReadIsRecent`, `IdleBound`). Proved under `IdleBound`: `HistoryKept`,
  `RolledUpStays`, `PrunedAsStamped`, `RawRangeComplete`, `RolledRangeComplete`;
  `TypeOK` without it.
* **AlertsProofs** (`PassInv` for the pass, `IncidentInv` for the incidents). What is
  applied plus what is still to do is what was evaluated, and rows outside it are what
  `clearMissing` selects. Proved: `TypeOK`, `FiringHasIncident` as part of
  `IncidentsMatch`, `FullPassSettles`, `HeartbeatTrue`, `OutageLeavesCredentials`,
  `Hysteresis`.
* **LiveReadProofs** (`LiveInv`). There is one call at most and its last request went
  out after the slot's value was read (`OneCall`); the slot's strikes are the capped
  number of 429s in a row and its wait covers the one asked for, unless that is over
  (`SlotTellsHistory`), which is how a miss, that sets `until` to now, cannot shorten a
  backoff. Proved: every safety property of the run.
* **SnapshotsProofs** (`SnapInv`). What the running cycle has recorded so far is last
  in its table (`CycleInv`), and it is dated after `last_snapshot_at`
  (`MomentsInv`), so later cycles cannot disturb what was stamped. At the stamp
  `CycleInv` is the guard of `ChangeLog`'s `Vouch`, and recording is its `Change` or a
  stutter. `HistoryComplete` needs only the types: the greatest id before the range is the last
  row before it, and in an ordered history all later rows lie behind it. What is drawn
  is a recursive function (`Drawing`): `RecursionExists` shows that there is one, and
  the first row at which the points drawn were not the changes so far (`DrawingIs`)
  would come after a row that adds exactly its change (`AddRowOf`). For the runway,
  nothing is dated after the poll (`ObservedInv`), so the window of the rate starts ever
  later along points that only rise since the last reset: the rise shrinks
  (`SampleRises`, `UsedAtGrows`), the span does not (`SampleSlows`), and the products are
  compared (`EstimateSlows`). Proved: every property of the run, `LogsOnlyChanges`,
  `PointsAreChanges` and `IdleSlows` among them.
* **HealthProofs** (`NotedInv`, `PaceInv`, `WatchInv`, `ReportInv`, `AlarmInv`). What a
  stage noted stands until that stage clears it, and the time of its row only moves on
  (`NotedInv`), so the newest row is at least as new. For the stalled rule, what a pass
  has read was true when it was read and is only ever too old (`WatchInv`), and time is
  bounded by what is due (`PaceInv`). Wherever the snapshot loop stands, the time until a
  pass has read and applied what happened is no more than what is left of `Delay`
  (`Near`), each failed statement paying for the cycle it costs; from this both bounds
  follow, that on the silence before a report (`ReportInv`) and that on an alarm after it
  (`AlarmInv`). Proved: every property of the run, and
  `TypeOK`. `StallReported` is about a
  process that has had its minutes: one that restarts more often than that is silent by
  design (`evaluate.ts:44`).
* **PoolActionsProofs** (`CallInv`). A request is sent with its call and leaves `sent`
  once, so it runs once, and only a call whose request is done is answered "ok". Proved:
  `TypeOK`, `DoneAtMostOnce`.
* **LedgerPageProofs**, the page (`PInv` on top of `IInv`). Under `IdleBound` a raw range young
  enough is every request ever stored in it and a rolled one only gains, so what has
  been read stays in the table it was read from (`ReadStays`) until the range expires;
  each statement then counts no less than the one before (`ModelsRead`, `CurrentRead`).
  The numbers drawn are about finite sets that are cut into parts: a sum over the parts
  is the size of the whole when each element is in one of them (`PartsAddUp`), and a bar,
  a row and a coloured part each take what is theirs. Every timestamp falls on the grid
  since it starts at a multiple of the step (`FloorIs`, `InsideIsDrawn`). For the
  percentiles, the ranks of a finite sample are the numbers up to its size
  (`RanksExist`, by an injection of the sample into them), so the sample is sorted
  (`LatencyIsSorted`) and the value of a rank has that many below it (`RankIs`).
  Proved: `PageGrows`, `SeriesLosesNothing` and `PercentilesHold`, `RowsAddUp` under
  `IdleBound`, and that `PageSpec` implements `Retention`, so all of the latter's
  theorems hold with pages being read.

* **QuotaProofs** (`TypeOK`). A listing by rank has each element once and in order
  (`ListingIs`), so the snapshots are merged oldest first. After each of them a window is
  that of the last so far to speak of its label (`MergedSoFar`, `MergeKeepsUp`), at the
  end therefore that of the newest. The levels shown are percents whatever a usage read
  replaced (`QuotaLevels`), so an account that reports sorts before one that does not,
  and the first card of a provider is at the least place (`WorstIsFirst`). Proved: both
  properties of the run.

Some theorems state safety properties no run lists, because a stronger one does or
because they are close to a single statement: `NotedFailureShows`,
`ErrorClearedByStoredCycle`, `PrunedAsStamped`, `NobodyWaitsInVain`,
`SnapshotsHaveOwners`, `OnlyChangesRecorded`, and the types of
`LiveRead`, `Health`, `PoolActions` and `Quota`.

The provers at hand cannot instantiate an induction theorem, so where one is needed the
proof goes by the least exception: a set of naturals that is not empty has a least
element (`LeastExists`, from their well-founded order), and the least
index at which a claim fails follows one at which it holds (`AllUpTo`).

Only model-checked: the liveness properties (`QueuedRecordLeaves`,
`ErrorEventuallyClears`, `AskAnswered`, `ActionSettles`, `AnswerShows`), since the
prover handles neither fairness nor ENABLED. Every safety property of the passing runs
is proved.

## What is not modelled

* Parsing, schemas, wording, formatting and layout; the SQL text beyond what it
  selects and writes. `classifyStatus` is wording: a credential's status is an input of
  `Alerts`.
* Tokens, credits, plans, reset times and names, which are copied or summed as requests
  and levels are; the label maps and the client registry's file, read anew by each pop,
  of which nothing is kept.
* The alerts page: it reads `alert_state` and pages through `alert_incidents` and keeps
  no state. The order of mails, which nothing stores.
* The drawing of charts beyond the buckets of the series; the other components keep no
  state that outlives a render, apart from the card.
* The life of the rules file across passes without rules: such a pass touches nothing.
* Migrations (one transaction each, run before anything else), the runtime's wiring,
  and scripts.
* Two processes on one database: the deployment is one process by design
  (`collector.ts:20`).

## Plan

Done, in the order of importance: the pop loop and its abstract promise; retention;
alerts; live reads; snapshots and their history; health and the stalled rule; the pool
actions; the quota fold; the ledger page over retention; the runway.

Next:

1. Composition: the snapshot loop with `LiveRead`'s slot in place of the free choice of
   usage reads, to bound how old a quota drawn or alerted on can be.
2. The alerts page over `Alerts`: paging while incidents open, and states and incidents
   read in two statements.
3. The life of the rules file: emptied and restored while pairs fire.
4. Proofs: an abstract log of incidents that `Alerts` implements.
