----------------------------- MODULE UsagePop -----------------------------
(***************************************************************************)
(* The pop loop of the collector: server/ledger/collector.ts popOnce,      *)
(* noteError, clearError and loop, the destructive ManagementApi.popUsage  *)
(* read, and the ledger writes of server/ledger/store.ts it performs, one  *)
(* SQL statement (or transaction) per step.  The gateway's usage queue is  *)
(* external.  A process crash keeps the database and drops everything else.*)
(*                                                                         *)
(* A record is an opaque value.  IdOf gives its request_id (two records    *)
(* may share one: a re-popped record), Malformed are the records           *)
(* decodeUsageRecord rejects.  last_pop_at is represented by the batch it  *)
(* was stamped for.                                                        *)
(***************************************************************************)
EXTENDS Integers, FiniteSets

CONSTANTS
  Record,       \* usage records the gateway may ever queue
  IdOf,         \* their request ids
  Malformed,    \* those that do not decode
  Batch,        \* BATCH, the count asked of one pop
  MaxFaults,    \* bound: failed statements and failed or lost replies
  MaxCrashes    \* bound: process crashes

ASSUME RecordAssumption == IsFiniteSet(Record) /\ Malformed \subseteq Record
ASSUME BatchAssumption == Batch \in Nat \ {0}
ASSUME BoundAssumption == MaxFaults \in Nat /\ MaxCrashes \in Nat

VARIABLES
  queue,        \* records in the gateway's usage queue
  offered,      \* records the gateway has ever queued
  requests,     \* request_ids in table requests
  rowsWritten,  \* collector_state rows_written
  lastPop,      \* the batch last_pop_at was written for
  lastCount,    \* collector_state last_pop_count
  errorPop,     \* is the row error:pop there?
  errorAt,      \* is the row error_at:pop there?
  pc,           \* the loop's next statement
  batch,        \* the decoded records of the running cycle
  written,      \* rows the running cycle's insert wrote
  landed,       \* history: records of committed batches
  slipped,      \* history: rows inserted but never counted
  failing,      \* history: how the last cycle ended: "no" error, a batch that
                \* could not be stored ("store"), or any "other" error
  muted,        \* history: noteError failed to record that error
  faults, crashes

ledger  == <<requests, rowsWritten>>
stamp   == <<lastPop, lastCount>>
health  == <<errorPop, errorAt>>
fiber   == <<pc, batch, written>>
history == <<landed, slipped, failing, muted>>
bounds  == <<faults, crashes>>
vars == <<queue, offered, ledger, stamp, health, fiber, history, bounds>>

PcValues == {"down", "pop", "insert", "count", "stampAt", "stampCount",
             "clear", "clearAt", "note", "noteAt"}

Ids(S) == {IdOf[r] : r \in S}
Smaller(m, n) == IF m < n THEN m ELSE n

-----------------------------------------------------------------------------
(* The gateway. *)

\* A request served by the proxy leaves one usage record in the queue.
Offer(r) ==
  /\ r \in Record \ offered
  /\ offered' = offered \union {r}
  /\ queue' = queue \union {r}
  /\ UNCHANGED <<ledger, stamp, health, fiber, history, bounds>>

\* The proxy keeps a record for 60 s only.
Expire(r) ==
  /\ r \in queue
  /\ queue' = queue \ {r}
  /\ UNCHANGED <<offered, ledger, stamp, health, fiber, history, bounds>>

\* What one GET /usage-queue?count=BATCH can remove.
Poppable == {S \in SUBSET queue : Cardinality(S) = Smaller(Batch, Cardinality(queue))}

-----------------------------------------------------------------------------
(* The loop, one statement at a time. *)

Goto(label) == pc' = label /\ UNCHANGED <<batch, written>>

\* Mutant: a malformed record is kept instead of dropped.
PopKeepsMalformed ==
  /\ pc = "pop"
  /\ \E S \in Poppable : queue' = queue \ S /\ batch' = S
  /\ pc' = "insert" /\ written' = 0
  /\ UNCHANGED <<offered, ledger, stamp, health, history, bounds>>

\* Mutant: last_pop_at is written as soon as the batch is there.
PopStampsFirst ==
  /\ pc = "pop"
  /\ \E S \in Poppable : queue' = queue \ S /\ batch' = S \ Malformed
  /\ lastPop' = batch'
  /\ pc' = "insert" /\ written' = 0
  /\ UNCHANGED <<offered, ledger, lastCount, health, history, bounds>>

\* popUsage: the reply's records are gone from the gateway whatever happens
\* next; each is decoded on its own and those that do not decode are dropped.
Pop ==
  /\ pc = "pop"
  /\ \E S \in Poppable : /\ queue' = queue \ S
                         /\ batch' = S \ Malformed
  /\ pc' = "insert"
  /\ written' = 0
  /\ UNCHANGED <<offered, ledger, stamp, health, history, bounds>>

\* Mutant: the rows of the batch are counted, not those the insert wrote.
InsertCountsBatch ==
  /\ pc = "insert"
  /\ requests' = requests \union Ids(batch)
  /\ written' = Cardinality(batch)
  /\ landed' = landed \union batch
  /\ pc' = "count"
  /\ UNCHANGED <<queue, offered, rowsWritten, stamp, health, batch, slipped, failing, muted, bounds>>

\* insertRequests: one transaction, INSERT OR IGNORE by request_id; it returns
\* the rows it really wrote.  An empty batch runs no SQL.
Insert ==
  /\ pc = "insert"
  /\ requests' = requests \union Ids(batch)
  /\ written' = Cardinality(Ids(batch) \ requests)
  /\ landed' = landed \union batch
  /\ pc' = "count"
  /\ UNCHANGED <<queue, offered, rowsWritten, stamp, health, batch, slipped, failing, muted, bounds>>

\* incrementRowsWritten, a statement of its own after the commit.
Count ==
  /\ pc = "count"
  /\ rowsWritten' = rowsWritten + written
  /\ Goto("stampAt")
  /\ UNCHANGED <<queue, offered, requests, stamp, health, history, bounds>>

StampAt ==
  /\ pc = "stampAt"
  /\ lastPop' = batch
  /\ Goto("stampCount")
  /\ UNCHANGED <<queue, offered, ledger, lastCount, health, history, bounds>>

StampCount ==
  /\ pc = "stampCount"
  /\ lastCount' = Cardinality(batch)
  /\ Goto("clear")
  /\ UNCHANGED <<queue, offered, ledger, lastPop, health, history, bounds>>

\* Mutant: clearError misses the message row.
ClearKeepsError ==
  /\ pc = "clear"
  /\ Goto("clearAt")
  /\ UNCHANGED <<queue, offered, ledger, stamp, health, history, bounds>>

\* clearError("pop"): two deletes; the cycle then ends, and the loop sleeps.
Clear ==
  /\ pc = "clear"
  /\ errorPop' = FALSE
  /\ Goto("clearAt")
  /\ UNCHANGED <<queue, offered, ledger, stamp, errorAt, history, bounds>>

ClearAt ==
  /\ pc = "clearAt"
  /\ errorAt' = FALSE
  /\ failing' = "no" /\ muted' = FALSE
  /\ pc' = "pop" /\ batch' = {} /\ written' = 0
  /\ UNCHANGED <<queue, offered, ledger, stamp, errorPop, landed, slipped, bounds>>

\* noteError("pop", ...): two upserts, then the loop sleeps as after a success.
Note ==
  /\ pc = "note"
  /\ errorPop' = TRUE
  /\ Goto("noteAt")
  /\ UNCHANGED <<queue, offered, ledger, stamp, errorAt, history, bounds>>

\* Mutant: the loop does not repeat after a failure.
NoteAtStops ==
  /\ pc = "noteAt"
  /\ errorAt' = TRUE
  /\ Goto("noteAt")
  /\ UNCHANGED <<queue, offered, ledger, stamp, errorPop, history, bounds>>

NoteAt ==
  /\ pc = "noteAt"
  /\ errorAt' = TRUE
  /\ Goto("pop")
  /\ UNCHANGED <<queue, offered, ledger, stamp, errorPop, history, bounds>>

-----------------------------------------------------------------------------
(* Failures. *)

Fault == faults < MaxFaults /\ faults' = faults + 1 /\ UNCHANGED crashes

\* The catchCause of the loop: whatever the cycle held is dropped and noteError
\* runs.  Rows inserted but not yet counted stay uncounted.
Abandon ==
  /\ pc' = "note" /\ batch' = {} /\ written' = 0
  /\ slipped' = slipped + (IF pc = "count" THEN written ELSE 0)
  /\ failing' = IF pc = "insert" THEN "store" ELSE "other"
  /\ muted' = FALSE

\* The gateway could not be read: nothing was popped.
PopRefused ==
  /\ pc = "pop" /\ Fault /\ Abandon
  /\ UNCHANGED <<queue, offered, ledger, stamp, health, landed>>

\* The gateway popped, but the reply timed out or did not parse; the client for
\* destructive reads never retries.
PopReplyLost ==
  /\ pc = "pop" /\ Fault /\ Abandon
  /\ \E S \in Poppable : queue' = queue \ S
  /\ UNCHANGED <<offered, ledger, stamp, health, landed>>

\* Mutant: insertRequests without its transaction keeps the chunks it wrote.
StatementFailsHalfway ==
  /\ pc \in {"insert", "count", "stampAt", "stampCount", "clear", "clearAt"}
  /\ pc = "insert" => batch # {}
  /\ Fault /\ Abandon
  /\ \E S \in SUBSET batch : /\ landed' = landed \union S
                             /\ requests' = requests \union Ids(S)
  /\ UNCHANGED <<queue, offered, rowsWritten, stamp, health>>

\* A statement of the cycle fails (busy, disk full); a transaction rolls back.
StatementFails ==
  /\ pc \in {"insert", "count", "stampAt", "stampCount", "clear", "clearAt"}
  /\ pc = "insert" => batch # {}
  /\ Fault /\ Abandon
  /\ UNCHANGED <<queue, offered, ledger, stamp, health, landed>>

\* noteError swallows its own failure: the loop goes on as if it had noted.
NoteFails ==
  /\ pc \in {"note", "noteAt"} /\ Fault
  /\ Goto("pop")
  /\ muted' = TRUE
  /\ UNCHANGED <<queue, offered, ledger, stamp, health, landed, slipped, failing>>

Crash ==
  /\ pc # "down"
  /\ crashes < MaxCrashes /\ crashes' = crashes + 1
  /\ pc' = "down" /\ batch' = {} /\ written' = 0
  /\ slipped' = slipped + (IF pc = "count" THEN written ELSE 0)
  /\ failing' = "no" /\ muted' = FALSE
  /\ UNCHANGED <<queue, offered, ledger, stamp, health, landed, faults>>

\* Collector: the loop is forked and pops at once.
Start ==
  /\ pc = "down"
  /\ Goto("pop")
  /\ UNCHANGED <<queue, offered, ledger, stamp, health, history, bounds>>

-----------------------------------------------------------------------------
Init ==
  /\ queue = {} /\ offered = {} /\ requests = {} /\ rowsWritten = 0
  /\ lastPop = {} /\ lastCount = 0 /\ errorPop = FALSE /\ errorAt = FALSE
  /\ pc = "down" /\ batch = {} /\ written = 0
  /\ landed = {} /\ slipped = 0 /\ failing = "no" /\ muted = FALSE
  /\ faults = 0 /\ crashes = 0

Gateway == \E r \in Record : Offer(r) \/ Expire(r)
Cycle == \/ Pop \/ Insert \/ Count \/ StampAt \/ StampCount \/ Clear \/ ClearAt
         \/ Note \/ NoteAt
Failure == PopRefused \/ PopReplyLost \/ StatementFails \/ NoteFails \/ Crash

Next == Gateway \/ Cycle \/ Failure \/ Start

Spec == Init /\ [][Next]_vars

\* The runtime keeps the forked loop running and the supervisor restarts the
\* process; the gateway and the failures owe nothing.
FairSpec == Spec /\ WF_vars(Cycle) /\ WF_vars(Start)
-----------------------------------------------------------------------------
(* Properties. *)

\* Types, and the frame of a cycle: only a running cycle holds records.
TypeOK ==
  /\ queue \subseteq offered /\ offered \subseteq Record
  /\ requests \subseteq Ids(Record)
  /\ landed \subseteq offered
  /\ rowsWritten \in Nat /\ lastCount \in Nat /\ slipped \in Nat
  /\ lastPop \subseteq Record
  /\ errorPop \in BOOLEAN /\ errorAt \in BOOLEAN
  /\ failing \in {"no", "store", "other"} /\ muted \in BOOLEAN
  /\ pc \in PcValues
  /\ batch \subseteq offered \ Malformed /\ written \in Nat
  /\ pc \in {"down", "pop", "note", "noteAt"} => batch = {} /\ written = 0
  /\ faults \in 0..MaxFaults /\ crashes \in 0..MaxCrashes

\* rows_written never runs ahead of the ledger: it is the number of rows in
\* requests, less exactly the rows of batches whose cycle broke off between
\* the commit of insertRequests and incrementRowsWritten, re-popped ids
\* counting once.
RowsWrittenAccounted ==
  rowsWritten + slipped + (IF pc = "count" THEN written ELSE 0) = Cardinality(requests)

\* last_pop_at, from which the stalled rule and the dashboard's lag are read,
\* only ever vouches for a batch that is in the ledger.
LastPopIsStored == Ids(lastPop) \subseteq requests

\* Between two cycles both error rows are there whenever the cycle before failed
\* and noteError could write: no failure of any statement is swallowed, and none
\* is mistaken for a success (collector.ts loop, noteError).
NotedFailureShows == pc = "pop" /\ failing # "no" /\ ~muted => errorPop /\ errorAt

\* Nothing but a cycle that stored everything it popped and said so in
\* last_pop_at removes the error row, across crashes and restarts.
ErrorClearedByStoredCycle ==
  [][errorPop /\ ~errorPop' => lastPop = batch /\ Ids(batch) \subseteq requests]_vars

\* The record's way through the pop loop as the abstract hand-over sees it.
Status == [r \in Record |->
             IF r \notin offered THEN "unborn"
             ELSE IF r \in queue THEN "queued"
             ELSE IF r \in landed THEN "landed"
             ELSE IF r \in batch /\ pc = "insert" THEN "held"
             ELSE "lost"]

Delivery == INSTANCE RecordDelivery WITH status <- Status

\* Each record is handed over at most once and its batch lands or is lost as a
\* whole: the pop loop implements RecordDelivery, crashes and faults included.
HandedOverOnce == Delivery!Spec

\* No failure stops the loop: a queued record is eventually popped (or expires).
QueuedRecordLeaves == \A r \in Record : r \in queue ~> r \notin queue

\* Once the faults stop the error goes away without help.
ErrorEventuallyClears == errorPop ~> ~errorPop
=============================================================================
