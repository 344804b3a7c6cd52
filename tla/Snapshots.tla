----------------------------- MODULE Snapshots -----------------------------
(***************************************************************************)
(* The snapshot loop of the collector (server/ledger/collector.ts,         *)
(* snapshotOnce), the quotas it observes (server/management), what it      *)
(* stores of them (store.ts: upsertCredentials, recordQuotaSnapshot), and  *)
(* what the ledger page draws of that (queries.ts, quotaHistory).          *)
(*                                                                         *)
(* One SQL statement per step; reading the last snapshot and inserting the *)
(* next is one, since nothing else writes the table.  The loop keeps       *)
(* nothing in memory between cycles, so a failing statement, an outage and *)
(* a crash of the process all break a cycle off.  The clock stands at the  *)
(* last poll.  A quota is an opaque value, its windows given by Windows.   *)
(***************************************************************************)
EXTENDS Integers, Sequences, FiniteSetsExt

CONSTANTS
  Credential,   \* credentials the gateway may list
  Metered,      \* those whose usage can be read from the provider
  Signalled,    \* those whose response headers tell their quota
  Quota,        \* what a credential's quota may be, serialised
  NoQuota,      \* the one without windows
  Windows,      \* its windows: label -> usedPercent
  MaxTime       \* bound on the clock

None == -1
Label == UNION {DOMAIN Windows[q] : q \in Quota}

ASSUME CredentialAssumption == Metered \subseteq Credential /\ Signalled \subseteq Credential
ASSUME QuotaAssumption ==
  /\ NoQuota \in Quota /\ DOMAIN Windows = Quota /\ DOMAIN Windows[NoQuota] = {}
  /\ \A q \in Quota : Windows[q] \in [DOMAIN Windows[q] -> 0..100]
ASSUME BoundAssumption == MaxTime \in Nat

VARIABLES
  headers,      \* the gateway: what each credential's newest headers say, and since when
  lastSeen,     \* table credentials: last_seen, None if there is no row
  rows,         \* table quota_snapshots: the rows of each credential by id
  lastSnapshot, \* collector_state last_snapshot_at
  pc,           \* "idle", or the running cycle's next statement
  poll,         \* what the running cycle observed, of the credentials listed
  recordedAt,   \* when, or when the last one did
  todo,         \* the credentials its next statement is still to run for
  stamped       \* history: the poll last_snapshot_at was written for

ledger == <<lastSeen, rows>>
stamps == <<lastSnapshot, stamped>>
vars == <<headers, ledger, stamps, pc, poll, recordedAt, todo>>

-----------------------------------------------------------------------------
(* Observing. *)

\* quotaOf: requests served since have left newer headers, or none did.
Headers(c, at) ==
  {headers[c]} \union IF c \in Signalled THEN [quota : Quota \ {NoQuota}, observed : {at}] ELSE {}

\* withCodexUsage, withClaudeUsage, withXaiBilling: a usage read with windows
\* replaces what the headers say and is dated with the poll; otherwise they stay.
Observations(c, header, at) ==
  {header} \union IF c \in Metered THEN [quota : Quota \ {NoQuota}, observed : {at}] ELSE {}

\* api.pools
Poll ==
  /\ pc = "idle"
  /\ \E at \in (recordedAt + 1)..MaxTime, listed \in SUBSET Credential :
       \E newest \in {h \in [Credential -> UNION {Headers(c, at) : c \in Credential}] :
                        \A c \in Credential : h[c] \in Headers(c, at)} :
         /\ headers' = newest
         /\ poll' \in {p \in [listed -> UNION {Observations(c, newest[c], at) : c \in listed}] :
                         \A c \in listed : p[c] \in Observations(c, newest[c], at)}
         /\ recordedAt' = at
         /\ todo' = listed
  /\ pc' = "upsert"
  /\ UNCHANGED <<ledger, stamps>>

\* The gateway does not answer: nothing is stored, and the cycle's error row
\* and alert pass are not of this module.
PollFails == pc = "idle" /\ UNCHANGED vars

-----------------------------------------------------------------------------
(* Storing. *)

Upsert(c) == lastSeen' = [lastSeen EXCEPT ![c] = recordedAt]

\* upsertCredentials
UpsertNext ==
  /\ pc = "upsert"
  /\ \/ \E c \in todo : Upsert(c) /\ todo' = todo \ {c} /\ pc' = pc
     \/ todo = {} /\ todo' = DOMAIN poll /\ pc' = "record" /\ UNCHANGED lastSeen
  /\ UNCHANGED <<headers, rows, stamps, poll, recordedAt>>

\* Mutant: only what has a moment of its own is dated.
RowUndated(observation) ==
  [quota |-> observation.quota, recorded |-> recordedAt, observed |-> observation.observed]

\* A row for quota_snapshots; without a moment of its own it has the poll's.
Row(observation) ==
  [quota |-> observation.quota, recorded |-> recordedAt,
   observed |-> IF observation.observed = None THEN recordedAt ELSE observation.observed]

\* Mutant: the row observed last.
LastRowObserved(c) ==
  rows[c][CHOOSE i \in DOMAIN rows[c] :
            \A j \in DOMAIN rows[c] : rows[c][j].observed <= rows[c][i].observed]

\* The row the new quota is compared with.
LastRow(c) == rows[c][Len(rows[c])]

Unchanged(c) == rows[c] # <<>> /\ LastRow(c).quota = poll[c].quota

\* recordQuotaSnapshot
Record(c) ==
  rows' = [rows EXCEPT ![c] = IF Unchanged(c) THEN @ ELSE Append(@, Row(poll[c]))]

RecordNext ==
  /\ pc = "record"
  /\ \/ \E c \in todo : Record(c) /\ todo' = todo \ {c} /\ pc' = pc
     \/ todo = {} /\ pc' = "stamp" /\ UNCHANGED <<rows, todo>>
  /\ UNCHANGED <<headers, lastSeen, stamps, poll, recordedAt>>

\* Mutant: last_snapshot_at is written before the credentials are recorded.
StampBefore ==
  /\ pc \in {"record", "stamp"}
  /\ lastSnapshot' = recordedAt /\ stamped' = poll
  /\ IF pc = "record" THEN UNCHANGED <<pc, poll>> ELSE pc' = "idle" /\ poll' = <<>>
  /\ UNCHANGED <<headers, ledger, recordedAt, todo>>

\* The cycle is as good as over: its error rows and its alert pass follow.
Stamp ==
  /\ pc = "stamp"
  /\ lastSnapshot' = recordedAt /\ stamped' = poll
  /\ pc' = "idle" /\ poll' = <<>>
  /\ UNCHANGED <<headers, ledger, recordedAt, todo>>

\* A statement fails, or the process goes down.
BreakOff ==
  /\ pc # "idle"
  /\ pc' = "idle" /\ poll' = <<>> /\ todo' = {}
  /\ UNCHANGED <<headers, ledger, stamps, recordedAt>>

-----------------------------------------------------------------------------
(* quotaHistory. *)

\* Mutant: the range begins with the first snapshot observed in it.
FirstInside(c, from) ==
  LET before == {i \in DOMAIN rows[c] : rows[c][i].observed < from}
  IN  IF before = {} THEN 0 ELSE Max(before) + 1

\* The range begins with the last snapshot stored of those observed before it.
First(c, from) ==
  LET before == {i \in DOMAIN rows[c] : rows[c][i].observed < from}
  IN  IF before = {} THEN 0 ELSE Max(before)

\* quotaHistory's rows
HistoryIds(c, range) ==
  LET first == First(c, range.from)
  IN  {i \in DOMAIN rows[c] : rows[c][i].observed < range.to /\ i >= first}

\* Nothing drawn, nothing said of any window yet.
Blank == [points |-> [l \in Label |-> <<>>], last |-> [l \in Label |-> None]]

\* The point a row adds to window l, of which `previous` was said last, if anything.
Point(row, l, previous) ==
  LET used == Windows[row.quota][l]
  IN  [at |-> row.observed, usedPercent |-> used, reset |-> previous # None /\ used < previous]

Changes(row, l, previous) ==
  l \in DOMAIN Windows[row.quota] /\ Windows[row.quota][l] # previous

\* Mutant: what a row does not say is forgotten.
AddRowForgets(acc, row) ==
  [points |-> [l \in Label |-> IF Changes(row, l, acc.last[l])
                               THEN Append(acc.points[l], Point(row, l, acc.last[l]))
                               ELSE acc.points[l]],
   last   |-> [l \in Label |-> IF l \in DOMAIN Windows[row.quota]
                               THEN Windows[row.quota][l] ELSE None]]

\* One row: a point for each of its windows that has changed.
AddRow(acc, row) ==
  [points |-> [l \in Label |-> IF Changes(row, l, acc.last[l])
                               THEN Append(acc.points[l], Point(row, l, acc.last[l]))
                               ELSE acc.points[l]],
   last   |-> [l \in Label |-> IF l \in DOMAIN Windows[row.quota]
                               THEN Windows[row.quota][l] ELSE acc.last[l]]]

\* The rows with these ids in turn, the others skipped.
Drawing(c, ids) ==
  LET draw[i \in 0..Len(rows[c])] ==
        IF i = 0 THEN Blank
        ELSE IF i \in ids THEN AddRow(draw[i - 1], rows[c][i]) ELSE draw[i - 1]
  IN  draw

\* What is drawn of these rows, window by window.
Points(c, ids) == Drawing(c, ids)[Len(rows[c])].points

-----------------------------------------------------------------------------
Init ==
  /\ headers = [c \in Credential |-> [quota |-> NoQuota, observed |-> None]]
  /\ lastSeen = [c \in Credential |-> None]
  /\ rows = [c \in Credential |-> <<>>]
  /\ lastSnapshot = None /\ stamped = <<>>
  /\ pc = "idle" /\ poll = <<>> /\ recordedAt = 0 /\ todo = {}

Next == Poll \/ PollFails \/ UpsertNext \/ RecordNext \/ Stamp \/ BreakOff

Spec == Init /\ [][Next]_vars
-----------------------------------------------------------------------------
(* Properties. *)

Moment == 0..MaxTime
Observation == [quota : Quota, observed : {None} \union Moment]
SnapshotRow == [quota : Quota, observed : Moment, recorded : Moment]

TypeOK ==
  /\ headers \in [Credential -> Observation]
  /\ lastSeen \in [Credential -> {None} \union Moment]
  /\ rows \in [Credential -> Seq(SnapshotRow)]
  /\ lastSnapshot \in {None} \union Moment
  /\ pc \in {"idle", "upsert", "record", "stamp"}
  /\ \A p \in {poll, stamped} : DOMAIN p \subseteq Credential /\ p \in [DOMAIN p -> Observation]
  /\ recordedAt \in Moment
  /\ todo \subseteq DOMAIN poll

\* "A snapshot per credential when its quota changed": no snapshot repeats the
\* one before it, also after cycles that broke off half way and when observations
\* come back out of order.
OnlyChangesRecorded ==
  \A c \in Credential : \A i \in 1..(Len(rows[c]) - 1) : rows[c][i].quota # rows[c][i + 1].quota

\* What /healthz and the alerts page date with last_snapshot_at is stored: for
\* each credential of that poll, the last row recorded by then has its quota.
LastSnapshotIsStored ==
  \A c \in DOMAIN stamped :
    LET recorded == {i \in DOMAIN rows[c] : rows[c][i].recorded <= lastSnapshot}
    IN  recorded # {} /\ rows[c][Max(recorded)].quota = stamped[c].quota

\* The quotas stored and those last_snapshot_at stands for, without their moments.
Log == [c \in Credential |-> [i \in DOMAIN rows[c] |-> rows[c][i].quota]]
Vouched == [c \in DOMAIN stamped |-> stamped[c].quota]

Changelog == INSTANCE ChangeLog WITH log <- Log, vouched <- Vouched

\* Nothing stored is ever changed, dropped or put between: the snapshots of a
\* credential only grow by one changed quota at their end, and last_snapshot_at is
\* written only while they end with what the poll observed of every credential in it,
\* though a cycle may break off between any two of them.
LogsOnlyChanges == Changelog!Spec

\* The ledger page finds the owner of every snapshot among the credentials, seen
\* no earlier than the snapshot was taken.
SnapshotsHaveOwners ==
  \A c \in Credential : \A i \in DOMAIN rows[c] : lastSeen[c] >= rows[c][i].recorded

\* Snapshots of one credential stored in the order they were observed.
InOrder(c) == \A i, j \in DOMAIN rows[c] : i < j => rows[c][i].observed <= rows[c][j].observed

Ranges == {range \in [from : 0..MaxTime, to : 1..(MaxTime + 1)] : range.from < range.to}
InRange(c, range) ==
  {i \in DOMAIN rows[c] : rows[c][i].observed >= range.from /\ rows[c][i].observed < range.to}

\* "One point before the range so the first segment has a start" (queries.ts):
\* as long as a credential's snapshots are stored in the order they were
\* observed, its history of a range is that one and every one inside.
HistoryComplete ==
  \A c \in Credential : \A range \in Ranges : InOrder(c) =>
      LET before == {i \in DOMAIN rows[c] : rows[c][i].observed < range.from}
      IN  HistoryIds(c, range) = InRange(c, range) \union IF before = {} THEN {} ELSE {Max(before)}

\* The same comment, whatever the order: the point before the range is an
\* addition, it costs none of the snapshots observed in the range.
HistoryKeepsRange ==
  \A c \in Credential : \A range \in Ranges : InRange(c, range) \subseteq HistoryIds(c, range)

\* "One point per observed change per window; a snapshot repeats unchanged
\* windows" (queries.ts): the points of a window are, in order, the changes among
\* the rows that say anything of it, and a reset is a change to less.
PointsAreChanges ==
  \A c \in Credential : \A ids \in {HistoryIds(c, range) : range \in Ranges} : \A l \in Label :
    LET used(i)   == Windows[rows[c][i].quota][l]
        said      == {i \in ids : l \in DOMAIN Windows[rows[c][i].quota]}
        before(i) == {j \in said : j < i}
        changes   == {i \in said : before(i) = {} \/ used(Max(before(i))) # used(i)}
        drawn     == Points(c, ids)[l]
    IN  /\ Len(drawn) = Cardinality(changes)
        /\ \A i \in changes :
             drawn[Cardinality({j \in changes : j <= i})] =
               [at |-> rows[c][i].observed, usedPercent |-> used(i),
                reset |-> before(i) # {} /\ used(i) < used(Max(before(i)))]
=============================================================================
