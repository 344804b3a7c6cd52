----------------------------- MODULE LedgerPage -----------------------------
(***************************************************************************)
(* The ledger page: loadLedger of functions/ledger.ts reads the breakdown, *)
(* the summaries and the series of server/ledger/queries.ts in statements  *)
(* of their own, without a transaction around them, while the pop loop and *)
(* the maintenance of Retention go on.  Each function picks its table, raw *)
(* rows or rollups, when it is called.                                     *)
(*                                                                         *)
(* What a statement returns is represented by the set of requests it       *)
(* counts; the numbers the page shows are operators on these sets.  What   *)
(* a request carries besides its timestamp is given by constants.  Tokens  *)
(* and times to the first token are summed and ranked as requests and      *)
(* latencies are, and left out; the range before and the comparison with   *)
(* it are ReadPrevious and Comparable of Retention.                        *)
(***************************************************************************)
EXTENDS Retention, Sequences, FiniteSetsExt, Functions

CONSTANTS
  Day,          \* the other unit of the series
  HourlyMax,    \* HOURLY_MAX_MS: ranges up to this are drawn by the hour
  Preset,       \* spans of the presets
  DefaultSpan,  \* the one a rejected custom range falls back to
  Custom,       \* custom ranges submitted: [from, to, dateOnly]
  ClientOf,     \* [timestamp -> client_hash]
  ModelOf,      \* [timestamp -> model, with its provider]
  LatencyOf,    \* [timestamp -> latency_ms, None where the record has none]
  FailedAt,     \* timestamps of the requests that failed
  MaxLoads      \* bound: loads of the page

ASSUME CalendarAssumption == Day \in Nat \ {0} /\ Day % Hour = 0 /\ HourlyMax \in Nat
ASSUME CustomAssumption == Custom \subseteq [from : Int, to : Int, dateOnly : BOOLEAN]
ASSUME LatencyAssumption == \A t \in 0..MaxTime : LatencyOf[t] \in {None} \union Nat
ASSUME SpanAssumption == Preset \subseteq Nat \ {0} /\ DefaultSpan \in Preset

VARIABLES
  stage,        \* the statement loadLedger runs next, "idle" or "shown"
  range,        \* the range asked for
  page,         \* what has been read
  loads         \* bound: loads so far

pageVars == <<stage, range, page, loads>>
allVars == <<vars, pageVars>>

NoPage ==
  [rolled |-> FALSE, rows |-> {}, latencies |-> {}, models |-> {},
   current |-> {}, seriesRolled |-> FALSE, series |-> {}]
NoRange == [from |-> 0, to |-> 0]

-----------------------------------------------------------------------------
(* The range. *)

\* resolveRange: a date-only `to` means the whole day; a range that is empty or
\* inverted is replaced by the default.
Resolve(query, t) ==
  LET end == IF query.dateOnly THEN query.to + Day ELSE query.to
  IN  IF query.from < end THEN [from |-> query.from, to |-> end]
      ELSE [from |-> t - DefaultSpan, to |-> t]

Asked(t) == {[from |-> t - span, to |-> t] : span \in Preset} \union {Resolve(q, t) : q \in Custom}

Counted(r, rolled) == IF rolled THEN Rolled(r.from, r.to) ELSE Raw(r.from, r.to)

-----------------------------------------------------------------------------
(* The statements of a load. *)

Idle == UNCHANGED vars
To(next) == stage' = next /\ UNCHANGED <<range, loads>>

Load ==
  /\ stage = "idle" /\ loads < MaxLoads
  /\ \E r \in Asked(now) : range' = r
  /\ loads' = loads + 1
  /\ page' = NoPage /\ stage' = "rows"
  /\ Idle

\* breakdown picks its table.  Some dimensions are of single requests (effort,
\* tier, agent): there are no rows by these from the rollups.
Rows ==
  /\ stage = "rows"
  /\ LET rolled == UsesRollups(range.from)
     IN  \/ /\ page' = [page EXCEPT !.rolled = rolled, !.rows = Counted(range, rolled)]
            /\ To(IF rolled THEN "models" ELSE "latencies")
         \/ rolled /\ page' = [page EXCEPT !.rolled = TRUE] /\ To("current")
  /\ Idle

Latencies ==
  /\ stage = "latencies"
  /\ page' = [page EXCEPT !.latencies = {t \in Counted(range, FALSE) : t \notin FailedAt}]
  /\ To("models")
  /\ Idle

Models ==
  /\ stage = "models"
  /\ page' = [page EXCEPT !.models = Counted(range, page.rolled)]
  /\ To("current")
  /\ Idle

Current ==
  /\ stage = "current"
  /\ page' = [page EXCEPT !.current = Read(range.from, range.to)]
  /\ To("series")
  /\ Idle

Series ==
  /\ stage = "series"
  /\ page' = [page EXCEPT !.seriesRolled = UsesRollups(range.from),
                          !.series = Read(range.from, range.to)]
  /\ To("shown")
  /\ Idle

\* The page is left, or the minute's refresh loads it again; a load that fails
\* shows nothing of what it has read.
Leave ==
  /\ stage # "idle"
  /\ page' = NoPage /\ stage' = "idle" /\ range' = NoRange
  /\ UNCHANGED loads
  /\ Idle

Loading == Rows \/ Latencies \/ Models \/ Current \/ Series

PageInit ==
  /\ Init
  /\ stage = "idle" /\ range = NoRange
  /\ page = NoPage /\ loads = 0

PageNext ==
  \/ Load \/ Loading \/ Leave
  \/ Next /\ UNCHANGED pageVars

PageSpec == PageInit /\ [][PageNext]_allVars

-----------------------------------------------------------------------------
(* What the page shows of the sets. *)

Step(r) == IF r.to - r.from <= HourlyMax THEN Hour ELSE Day
Floor(t, step) == t - (t % step)

\* Mutant: bars from the start of the range on.
BucketsFromRange(r) == {b \in r.from..(r.to - 1) : (b - r.from) % Step(r) = 0}

\* requestSeries: one bucket per unit touching the range, the empty ones too.
Buckets(r) == {b \in Floor(r.from, Step(r))..(r.to - 1) : b % Step(r) = 0}

Bar(r, counted, b) == Cardinality({t \in counted : Floor(t, Step(r)) = b})

\* A row of the breakdown.
Of(client, counted) == {t \in counted : ClientOf[t] = client}

\* t comes no later than u when sorted by latency.
NoSlower(t, u) == LatencyOf[t] < LatencyOf[u] \/ (LatencyOf[t] = LatencyOf[u] /\ t <= u)

\* The requests of a row whose latency is known.
Measured(client) == {t \in Of(client, page.latencies) : LatencyOf[t] # None}

\* The latencies of a row, in order: the i-th is that of the request that i come
\* no later than, itself among them.
Latency(client) ==
  LET measured == Measured(client)
      upTo(t)  == {u \in measured : NoSlower(u, t)}
  IN  [i \in 1..Cardinality(measured) |->
         LatencyOf[CHOOSE t \in measured : Cardinality(upTo(t)) = i]]

\* Mutant: the rank is rounded down.
PercentileFloor(sorted, p) ==
  IF sorted = <<>> THEN None ELSE sorted[Max({1, (p * Len(sorted)) \div 100})]

\* percentile, of p hundredths: nearest rank.
Percentile(sorted, p) ==
  IF sorted = <<>> THEN None ELSE sorted[Max({1, (p * Len(sorted) + 99) \div 100})]

\* Mutant: the shares leave out what failed, as the latencies do.
RowOfAnswered(client) ==
  LET own  == Of(client, page.rows)
      used == Of(client, page.models) \ FailedAt
  IN  [requests |-> Cardinality(own),
       failed   |-> Cardinality(own \intersect FailedAt),
       share    |-> [m \in {ModelOf[t] : t \in used} |->
                       Cardinality({t \in used : ModelOf[t] = m})],
       p50 |-> None, p95 |-> None]

\* A row of rollups: there are no latencies to rank.  A model's part of the row is
\* its own count over the row's, here without the division.
RolledRow(client) ==
  LET own  == Of(client, page.rows)
      used == Of(client, page.models)
  IN  [requests |-> Cardinality(own),
       failed   |-> Cardinality(own \intersect FailedAt),
       share    |-> [m \in {ModelOf[t] : t \in used} |->
                       Cardinality({t \in used : ModelOf[t] = m})],
       p50 |-> None, p95 |-> None]

\* A row of requests: the same and its percentiles.
Row(client) ==
  [RolledRow(client) EXCEPT !.p50 = Percentile(Latency(client), 50),
                            !.p95 = Percentile(Latency(client), 95)]

Breakdown(client) == IF page.rolled THEN RolledRow(client) ELSE Row(client)

-----------------------------------------------------------------------------
(* Properties. *)

Shown == stage = "shown"
Clients == {ClientOf[t] : t \in page.rows}

\* The bars, empty ones filled in, lose no request the statement counted: every
\* stored timestamp or rolled hour of the range falls on the grid they are drawn on.
SeriesLosesNothing ==
  Shown => SumFunction([b \in Buckets(range) |-> Bar(range, page.series, b)])
             = Cardinality(page.series)

\* The numbers of one page are read one after the other while requests arrive,
\* are rolled up and pruned: a later number never counts less.  The shares of a
\* row add up to at least one, the headline is no less than the rows add up to
\* and the bars no less than the headline, unless midway the range got too old
\* for the raw rows.
PageGrows ==
  Shown /\ page.rolled = page.seriesRolled =>
    /\ page.rows \subseteq page.models
    /\ page.models \subseteq page.current
    /\ page.current \subseteq page.series

\* The requests of a page belong to one row each, and the coloured parts of a row,
\* read in a statement of their own, fill its bar to the end: no request of the row
\* is without a model, though the rows are read first, unless midway the range got
\* too old for them.
RowsAddUp ==
  Shown /\ page.rolled = page.seriesRolled =>
    /\ SumFunction([c \in Clients |-> Breakdown(c).requests]) = Cardinality(page.rows)
    /\ \A client \in Clients :
         SumFunction(Breakdown(client).share) >= Breakdown(client).requests

\* The latencies of a row are a sample of their own, read after its requests and
\* short of those that failed or carry none: whatever is left of it, the rank
\* stays inside it, half of it is no slower than p50 and 95 of a hundred no slower
\* than p95, and p50 <= p95.
PercentilesHold ==
  Shown /\ ~page.rolled => \A client \in Clients :
    LET sorted == Latency(client)
        row    == Breakdown(client)
        within(ms) == Cardinality({i \in DOMAIN sorted : sorted[i] <= ms})
    IN  sorted # <<>> =>
          /\ within(row.p50) * 100 >= 50 * Len(sorted)
          /\ within(row.p95) * 100 >= 95 * Len(sorted)
          /\ row.p50 <= row.p95
=============================================================================
