-------------------------- MODULE UsagePopProofs --------------------------
(***************************************************************************)
(* Proofs about UsagePop, for every set of records, every batch size and   *)
(* any number of faults and crashes: the types, the bookkeeping of the     *)
(* ledger, the error rows, and the refinement of RecordDelivery.           *)
(***************************************************************************)
EXTENDS UsagePop, FiniteSetTheorems, TLAPS

-----------------------------------------------------------------------------
(* Finite sets of request ids. *)

\* The ids of a set of records, all of them records, are ids of records.
LEMMA IdsMonotone ==
  ASSUME NEW S, NEW T, S \subseteq T
  PROVE  Ids(S) \subseteq Ids(T)
  BY DEF Ids

\* There are finitely many request ids.
LEMMA IdsFinite == IsFiniteSet(Ids(Record))
<1> DEFINE f == [r \in Record |-> IdOf[r]]
<1>1. f \in Surjection(Record, Ids(Record))
  BY DEF Surjection, Ids
<1>2. QED
  BY <1>1, FS_Surjection, RecordAssumption

\* A set of ids of records is finite and has a size.
LEMMA IdSetFinite ==
  ASSUME NEW S, S \subseteq Ids(Record)
  PROVE  IsFiniteSet(S) /\ Cardinality(S) \in Nat
<1>1. IsFiniteSet(S)
  BY IdsFinite, FS_Subset
<1>2. QED
  BY <1>1, FS_CardinalityType

\* A set of records is finite and has a size.
LEMMA RecordSetFinite ==
  ASSUME NEW S, S \subseteq Record
  PROVE  IsFiniteSet(S) /\ Cardinality(S) \in Nat
<1>1. IsFiniteSet(S)
  BY RecordAssumption, FS_Subset
<1>2. QED
  BY <1>1, FS_CardinalityType

\* INSERT OR IGNORE: the table grows by the ids it did not hold.
LEMMA InsertOrIgnore ==
  ASSUME NEW S, S \subseteq Ids(Record), NEW T, T \subseteq Ids(Record)
  PROVE  Cardinality(S \union T) = Cardinality(S) + Cardinality(T \ S)
<1> DEFINE New == T \ S
<1>1. IsFiniteSet(S) /\ Cardinality(S) \in Nat
  BY IdSetFinite
<1>2. IsFiniteSet(New) /\ Cardinality(New) \in Nat
  BY IdSetFinite
<1>3. S \union T = S \union New
  OBVIOUS
<1>4. Cardinality(S \intersect New) = 0
  <2>1. S \intersect New = {}
    OBVIOUS
  <2>2. QED
    BY <2>1, FS_EmptySet
<1>5. Cardinality(S \union New) = Cardinality(S) + Cardinality(New) - Cardinality(S \intersect New)
  <2> HIDE DEF New
  <2>1. QED
    BY <1>1, <1>2, FS_Union
<1>6. Cardinality(S \union New) = Cardinality(S) + Cardinality(New)
  <2> HIDE DEF New
  <2>1. QED
    BY <1>1, <1>2, <1>4, <1>5
<1>7. QED
  BY <1>3, <1>6

-----------------------------------------------------------------------------
(* The parts of the inductive invariant. *)

\* After the commit the running cycle's batch is in the ledger.
BatchStored ==
  pc \in {"count", "stampAt", "stampCount", "clear", "clearAt"} =>
    Ids(batch) \subseteq requests /\ batch \subseteq landed

\* last_pop_at is written before the error rows are cleared.
StampedFirst == pc \in {"stampCount", "clear", "clearAt"} => lastPop = batch

\* noteError writes the message first; a crash leaves nothing to note.
NoteInOrder == /\ pc = "noteAt" => errorPop
               /\ pc = "down" => failing = "no"

\* A record is in one place only.
OnePlace == /\ queue \intersect landed = {}
            /\ queue \intersect batch = {}
            /\ pc = "insert" => batch \intersect landed = {}

PopInv ==
  /\ TypeOK
  /\ RowsWrittenAccounted
  /\ LastPopIsStored
  /\ BatchStored
  /\ StampedFirst
  /\ NoteInOrder
  /\ NotedFailureShows
  /\ OnePlace

-----------------------------------------------------------------------------
(* Types. *)

\* What leaves the queue in one pop was in it.
LEMMA PoppableInQueue ==
  ASSUME NEW S \in Poppable
  PROVE  S \subseteq queue
  BY DEF Poppable

LEMMA InitTyped == Init => TypeOK
<1> SUFFICES ASSUME Init PROVE TypeOK
  OBVIOUS
<1>1. 0 \in Nat /\ 0 \in 0..MaxFaults /\ 0 \in 0..MaxCrashes
  BY BoundAssumption
<1>2. QED
  BY <1>1, Zenon DEF Init, TypeOK, PcValues

\* A broken-off cycle leaves the loop's own variables well typed.
LEMMA AbandonTyped ==
  ASSUME TypeOK, Abandon
  PROVE  /\ pc' = "note" /\ batch' = {} /\ written' = 0 /\ muted' = FALSE
         /\ slipped' \in Nat /\ failing' \in {"no", "store", "other"}
  BY DEF TypeOK, Abandon

\* One more fault or crash stays within the bound.
LEMMA FaultTyped ==
  ASSUME TypeOK, Fault
  PROVE  faults' \in 0..MaxFaults /\ crashes' \in 0..MaxCrashes
  BY BoundAssumption DEF TypeOK, Fault

LEMMA TypeStep == TypeOK /\ [Next]_vars => TypeOK'
<1> SUFFICES ASSUME TypeOK, [Next]_vars PROVE TypeOK'
  OBVIOUS
<1> USE DEF TypeOK, PcValues, ledger, stamp, health, fiber, history, bounds
<1>1. ASSUME NEW r \in Record, Offer(r) PROVE TypeOK'
  BY <1>1 DEF Offer
<1>2. ASSUME NEW r \in Record, Expire(r) PROVE TypeOK'
  BY <1>2 DEF Expire
<1>3. CASE Pop
  BY <1>3, PoppableInQueue DEF Pop
<1>4. CASE Insert
  <2>1. Ids(batch) \subseteq Ids(Record)
    BY IdsMonotone
  <2>2. Cardinality(Ids(batch) \ requests) \in Nat
    BY <2>1, IdSetFinite
  <2>3. QED
    BY <1>4, <2>1, <2>2 DEF Insert
<1>5. CASE Count
  BY <1>5 DEF Count, Goto
<1>6. CASE StampAt
  BY <1>6 DEF StampAt, Goto
<1>7. CASE StampCount
  <2>1. Cardinality(batch) \in Nat
    BY RecordSetFinite
  <2>2. QED
    BY <1>7, <2>1 DEF StampCount, Goto
<1>8. CASE Clear
  BY <1>8 DEF Clear, Goto
<1>9. CASE ClearAt
  BY <1>9 DEF ClearAt
<1>10. CASE Note
  BY <1>10 DEF Note, Goto
<1>11. CASE NoteAt
  BY <1>11 DEF NoteAt, Goto
<1>12. CASE PopRefused
  BY <1>12, AbandonTyped, FaultTyped DEF PopRefused
<1>13. CASE PopReplyLost
  BY <1>13, AbandonTyped, FaultTyped DEF PopReplyLost
<1>14. CASE StatementFails
  <2>1. Abandon /\ Fault /\ UNCHANGED <<queue, offered, ledger, stamp, health, landed>>
    BY <1>14 DEF StatementFails
  <2>2. faults' \in 0..MaxFaults /\ crashes' \in 0..MaxCrashes
    BY <2>1, FaultTyped
  <2>3. /\ pc' = "note" /\ batch' = {} /\ written' = 0 /\ muted' = FALSE
        /\ slipped' \in Nat /\ failing' \in {"no", "store", "other"}
    BY <2>1, AbandonTyped
  <2>4. QED
    BY <2>1, <2>2, <2>3
<1>15. CASE NoteFails
  BY <1>15, BoundAssumption DEF NoteFails, Fault, Goto
<1>16. CASE Crash
  <2>1. slipped' \in Nat
    BY <1>16 DEF Crash
  <2>2. faults' \in 0..MaxFaults /\ crashes' \in 0..MaxCrashes
    BY <1>16, BoundAssumption DEF Crash
  <2>3. QED
    BY <1>16, <2>1, <2>2 DEF Crash
<1>17. CASE Start
  BY <1>17 DEF Start, Goto
<1>18. CASE UNCHANGED vars
  BY <1>18 DEF vars
<1>19. QED
  BY <1>1, <1>2, <1>3, <1>4, <1>5, <1>6, <1>7, <1>8, <1>9, <1>10, <1>11, <1>12,
     <1>13, <1>14, <1>15, <1>16, <1>17, <1>18
     DEF Next, Gateway, Cycle, Failure

\* The pop loop is well typed, and holds records only while a cycle runs.
THEOREM TypeCorrect == Spec => []TypeOK
<1>1. QED
  BY InitTyped, TypeStep, PTL DEF Spec
-----------------------------------------------------------------------------
(* The bookkeeping: one step per action, and under it one per part of the *)
(* invariant it can disturb. *)

LEMMA InitInv == Init => PopInv
<1> SUFFICES ASSUME Init PROVE PopInv
  OBVIOUS
<1>1. TypeOK
  BY InitTyped
<1>2. RowsWrittenAccounted
  BY FS_EmptySet DEF Init, RowsWrittenAccounted
<1>3. LastPopIsStored
  BY DEF Init, LastPopIsStored, Ids
<1>4. BatchStored /\ StampedFirst /\ NoteInOrder /\ NotedFailureShows /\ OnePlace
  BY DEF Init, BatchStored, StampedFirst, NoteInOrder, NotedFailureShows, OnePlace
<1>5. QED
  BY <1>1, <1>2, <1>3, <1>4 DEF PopInv

\* insertRequests: the table, the count the cycle carries, and the history.
LEMMA InsertStep ==
  ASSUME PopInv, Insert, TypeOK'
  PROVE  PopInv'
<1>1. Ids(batch) \subseteq Ids(Record)
  BY IdsMonotone DEF PopInv, TypeOK
<1>2. RowsWrittenAccounted'
  <2>1. Cardinality(requests \union Ids(batch))
          = Cardinality(requests) + Cardinality(Ids(batch) \ requests)
    BY <1>1, InsertOrIgnore DEF PopInv, TypeOK
  <2>2. Cardinality(requests) \in Nat /\ Cardinality(Ids(batch) \ requests) \in Nat
    BY <1>1, IdSetFinite DEF PopInv, TypeOK
  <2>3. rowsWritten + slipped = Cardinality(requests)
    BY DEF Insert, PopInv, TypeOK, RowsWrittenAccounted
  <2>4. requests' = requests \union Ids(batch) /\ written' = Cardinality(Ids(batch) \ requests)
        /\ rowsWritten' = rowsWritten /\ slipped' = slipped /\ pc' = "count"
    BY DEF Insert
  <2>5. QED
    BY <2>1, <2>2, <2>3, <2>4 DEF PopInv, TypeOK, RowsWrittenAccounted
<1>3. LastPopIsStored'
  BY DEF PopInv, LastPopIsStored, Insert, stamp, Ids
<1>4. BatchStored'
  BY DEF PopInv, BatchStored, Insert, Ids
<1>5. StampedFirst' /\ NoteInOrder' /\ NotedFailureShows'
  BY DEF Insert, StampedFirst, NoteInOrder, NotedFailureShows
<1>6. OnePlace'
  BY DEF PopInv, OnePlace, Insert
<1>7. QED
  BY <1>2, <1>3, <1>4, <1>5, <1>6 DEF PopInv

\* A cycle that breaks off, whatever the statement, leaves the tables alone.
LEMMA AbandonStep ==
  ASSUME PopInv, TypeOK',
         queue' \subseteq queue, landed' = landed, batch' = {},
         requests' = requests, rowsWritten' = rowsWritten, lastPop' = lastPop,
         pc' \in {"note", "down"}, pc' = "down" => failing' = "no",
         slipped' = slipped + (IF pc = "count" THEN written ELSE 0)
  PROVE  PopInv'
<1>1. RowsWrittenAccounted'
  BY DEF PopInv, TypeOK, RowsWrittenAccounted
<1>2. LastPopIsStored'
  BY DEF PopInv, LastPopIsStored, Ids
<1>3. BatchStored' /\ StampedFirst' /\ NoteInOrder' /\ NotedFailureShows'
  BY DEF BatchStored, StampedFirst, NoteInOrder, NotedFailureShows
<1>4. OnePlace'
  BY DEF PopInv, OnePlace
<1>5. QED
  BY <1>1, <1>2, <1>3, <1>4 DEF PopInv

\* A step that leaves ledger and last_pop_at alone keeps what relates the two.
LEMMA LedgerUntouched ==
  ASSUME PopInv, requests' = requests, rowsWritten' = rowsWritten, slipped' = slipped,
         lastPop' = lastPop, pc # "count", pc' # "count"
  PROVE  RowsWrittenAccounted' /\ LastPopIsStored'
<1>1. RowsWrittenAccounted'
  BY DEF PopInv, TypeOK, RowsWrittenAccounted
<1>2. LastPopIsStored'
  BY DEF PopInv, LastPopIsStored, Ids
<1>3. QED
  BY <1>1, <1>2

LEMMA InvStep == PopInv /\ [Next]_vars => PopInv'
<1> SUFFICES ASSUME PopInv, [Next]_vars PROVE PopInv'
  OBVIOUS
<1> USE DEF ledger, stamp, health, fiber, history, bounds
<1>0. TypeOK /\ TypeOK'
  BY TypeStep DEF PopInv
<1>1. ASSUME NEW r \in Record, Offer(r) PROVE PopInv'
  <2>1. OnePlace'
    BY <1>0, <1>1 DEF Offer, PopInv, TypeOK, OnePlace
  <2>2. RowsWrittenAccounted' /\ LastPopIsStored'
    BY <1>1 DEF Offer, PopInv, RowsWrittenAccounted, LastPopIsStored, Ids
  <2>3. BatchStored' /\ StampedFirst' /\ NoteInOrder' /\ NotedFailureShows'
    BY <1>1 DEF Offer, PopInv, BatchStored, StampedFirst, NoteInOrder, NotedFailureShows, Ids
  <2>4. QED
    BY <1>0, <2>1, <2>2, <2>3 DEF PopInv
<1>2. ASSUME NEW r \in Record, Expire(r) PROVE PopInv'
  <2>1. OnePlace'
    BY <1>2 DEF Expire, PopInv, OnePlace
  <2>2. RowsWrittenAccounted' /\ LastPopIsStored'
    BY <1>2 DEF Expire, PopInv, RowsWrittenAccounted, LastPopIsStored, Ids
  <2>3. BatchStored' /\ StampedFirst' /\ NoteInOrder' /\ NotedFailureShows'
    BY <1>2 DEF Expire, PopInv, BatchStored, StampedFirst, NoteInOrder, NotedFailureShows, Ids
  <2>4. QED
    BY <1>0, <2>1, <2>2, <2>3 DEF PopInv
<1>3. CASE Pop
  <2>1. OnePlace'
    BY <1>3, PoppableInQueue DEF Pop, PopInv, OnePlace
  <2>2. RowsWrittenAccounted' /\ LastPopIsStored'
    BY <1>3, LedgerUntouched DEF Pop
  <2>3. BatchStored' /\ StampedFirst' /\ NoteInOrder' /\ NotedFailureShows'
    BY <1>3 DEF Pop, BatchStored, StampedFirst, NoteInOrder, NotedFailureShows
  <2>4. QED
    BY <1>0, <2>1, <2>2, <2>3 DEF PopInv
<1>4. CASE Insert
  BY <1>0, <1>4, InsertStep
<1>5. CASE Count
  <2>1. RowsWrittenAccounted'
    BY <1>0, <1>5 DEF Count, Goto, PopInv, TypeOK, RowsWrittenAccounted
  <2>2. LastPopIsStored' /\ BatchStored'
    BY <1>5 DEF Count, Goto, PopInv, LastPopIsStored, BatchStored, Ids
  <2>3. StampedFirst' /\ NoteInOrder' /\ NotedFailureShows' /\ OnePlace'
    BY <1>5 DEF Count, Goto, PopInv, StampedFirst, NoteInOrder, NotedFailureShows, OnePlace
  <2>4. QED
    BY <1>0, <2>1, <2>2, <2>3 DEF PopInv
<1>6. CASE StampAt
  <2>1. RowsWrittenAccounted'
    BY <1>0, <1>6 DEF StampAt, Goto, PopInv, TypeOK, RowsWrittenAccounted
  <2>2. LastPopIsStored' /\ BatchStored'
    BY <1>6 DEF StampAt, Goto, PopInv, LastPopIsStored, BatchStored, Ids
  <2>3. StampedFirst' /\ NoteInOrder' /\ NotedFailureShows' /\ OnePlace'
    BY <1>6 DEF StampAt, Goto, PopInv, StampedFirst, NoteInOrder, NotedFailureShows, OnePlace
  <2>4. QED
    BY <1>0, <2>1, <2>2, <2>3 DEF PopInv
<1>7. CASE StampCount \/ Clear
  <2> USE DEF StampCount, Clear, Goto
  <2>1. RowsWrittenAccounted' /\ LastPopIsStored'
    BY <1>7, LedgerUntouched
  <2>2. BatchStored'
    BY <1>7 DEF PopInv, BatchStored, Ids
  <2>3. StampedFirst' /\ NoteInOrder' /\ NotedFailureShows' /\ OnePlace'
    BY <1>7 DEF PopInv, StampedFirst, NoteInOrder, NotedFailureShows, OnePlace
  <2>4. QED
    BY <1>0, <2>1, <2>2, <2>3 DEF PopInv
<1>8. CASE ClearAt
  <2>1. RowsWrittenAccounted' /\ LastPopIsStored'
    BY <1>8, LedgerUntouched DEF ClearAt
  <2>2. BatchStored' /\ StampedFirst' /\ NoteInOrder' /\ NotedFailureShows'
    BY <1>8 DEF ClearAt, BatchStored, StampedFirst, NoteInOrder, NotedFailureShows
  <2>3. OnePlace'
    BY <1>8 DEF ClearAt, PopInv, OnePlace
  <2>4. QED
    BY <1>0, <2>1, <2>2, <2>3 DEF PopInv
<1>9. CASE Note \/ NoteAt \/ NoteFails
  <2> USE DEF Note, NoteAt, NoteFails, Goto
  <2>1. RowsWrittenAccounted' /\ LastPopIsStored'
    BY <1>9, LedgerUntouched
  <2>2. BatchStored' /\ StampedFirst' /\ OnePlace'
    BY <1>9 DEF PopInv, BatchStored, StampedFirst, OnePlace
  <2>3. NoteInOrder' /\ NotedFailureShows'
    BY <1>9 DEF PopInv, NoteInOrder, NotedFailureShows
  <2>4. QED
    BY <1>0, <2>1, <2>2, <2>3 DEF PopInv
<1>10. CASE PopRefused \/ PopReplyLost \/ StatementFails \/ Crash
  BY <1>0, <1>10, AbandonStep DEF PopRefused, PopReplyLost, StatementFails, Crash, Abandon
<1>11. CASE Start
  <2>1. RowsWrittenAccounted' /\ LastPopIsStored'
    BY <1>11, LedgerUntouched DEF Start, Goto
  <2>2. BatchStored' /\ StampedFirst' /\ NoteInOrder' /\ NotedFailureShows' /\ OnePlace'
    BY <1>11 DEF Start, Goto, PopInv, BatchStored, StampedFirst, NoteInOrder,
                 NotedFailureShows, OnePlace
  <2>3. QED
    BY <1>0, <2>1, <2>2 DEF PopInv
<1>12. CASE UNCHANGED vars
  <2>1. RowsWrittenAccounted' /\ LastPopIsStored' /\ BatchStored'
    BY <1>12 DEF vars, PopInv, RowsWrittenAccounted, LastPopIsStored, BatchStored, Ids
  <2>2. StampedFirst' /\ NoteInOrder' /\ NotedFailureShows' /\ OnePlace'
    BY <1>12 DEF vars, PopInv, StampedFirst, NoteInOrder, NotedFailureShows, OnePlace
  <2>3. QED
    BY <1>0, <2>1, <2>2 DEF PopInv
<1>13. QED
  BY <1>1, <1>2, <1>3, <1>4, <1>5, <1>6, <1>7, <1>8, <1>9, <1>10, <1>11, <1>12
     DEF Next, Gateway, Cycle, Failure

LEMMA Invariance == Spec => []PopInv
<1>1. QED
  BY InitInv, InvStep, PTL DEF Spec

\* rows_written is the size of the ledger less the rows of cycles that broke off
\* between the commit and the count, for any faults and crashes.
THEOREM RowsWrittenCorrect == Spec => []RowsWrittenAccounted
<1>1. PopInv => RowsWrittenAccounted
  BY DEF PopInv
<1>2. QED
  BY <1>1, Invariance, PTL

\* last_pop_at vouches for stored batches only.
THEOREM LastPopTruthful == Spec => []LastPopIsStored
<1>1. PopInv => LastPopIsStored
  BY DEF PopInv
<1>2. QED
  BY <1>1, Invariance, PTL

\* A failed cycle whose note could be written shows as an error.
THEOREM FailureShows == Spec => []NotedFailureShows
<1>1. PopInv => NotedFailureShows
  BY DEF PopInv
<1>2. QED
  BY <1>1, Invariance, PTL
\* Only a cycle whose batch is stored and stamped takes the error row away.
THEOREM ErrorClearedRightly == Spec => ErrorClearedByStoredCycle
<1> DEFINE Cleared == errorPop /\ ~errorPop' => lastPop = batch /\ Ids(batch) \subseteq requests
<1>1. ASSUME PopInv, [Next]_vars PROVE Cleared
  <2>1. CASE Clear
    BY <1>1, <2>1 DEF Clear, PopInv, BatchStored, StampedFirst
  <2>2. CASE errorPop => errorPop'
    BY <2>2
  <2>3. Clear \/ (errorPop => errorPop')
    BY <1>1 DEF Next, Gateway, Cycle, Failure, Offer, Expire, Pop, Insert, Count, StampAt,
                StampCount, ClearAt, Note, NoteAt, PopRefused, PopReplyLost, StatementFails,
                NoteFails, Crash, Start, Goto, vars, health
  <2>4. QED
    BY <2>1, <2>2, <2>3
<1>2. PopInv /\ [Next]_vars => [Cleared]_vars
  BY <1>1
<1>3. QED
  BY <1>2, Invariance, PTL DEF Spec, ErrorClearedByStoredCycle

-----------------------------------------------------------------------------
(* The refinement of RecordDelivery.  Statements that neither pop nor store  *)
(* leave Status as it is, whatever else they do.                             *)

\* Status depends on these variables only.
LEMMA StatusStutters ==
  ASSUME PopInv, UNCHANGED <<offered, queue, landed>>,
         pc # "insert", pc' # "insert"
  PROVE  Status' = Status
  BY DEF Status

\* A record is held exactly while its batch waits for insertRequests.
LEMMA Held ==
  ASSUME PopInv
  PROVE  Delivery!In("held") = IF pc = "insert" THEN batch ELSE {}
  BY DEF PopInv, TypeOK, OnePlace, Status, Delivery!In

\* A record is queued exactly while the gateway has it.
LEMMA Queued ==
  ASSUME PopInv
  PROVE  Delivery!In("queued") = queue
  BY DEF PopInv, TypeOK, Status, Delivery!In

LEMMA InitRefines == Init => Delivery!Init
  BY DEF Init, Delivery!Init, Status

\* A new record.
LEMMA OfferRefines ==
  ASSUME PopInv, NEW r \in Record, Offer(r)
  PROVE  Delivery!Offer(r)
  BY DEF PopInv, TypeOK, OnePlace, Status, Offer, fiber, history, Delivery!Offer, Delivery!Move

\* Records that leave the queue into nobody's hands.
LEMMA ForgetRefines ==
  ASSUME PopInv, NEW S \in SUBSET queue, queue' = queue \ S,
         UNCHANGED <<offered, landed>>,
         \/ pc' = pc /\ batch' = batch
         \/ pc # "insert" /\ pc' # "insert"
  PROVE  Delivery!Forget(S)
<1>1. Status' = Delivery!Move(S, "lost")
  BY DEF PopInv, TypeOK, OnePlace, Status, Delivery!Move
<1>2. QED
  BY <1>1, Queued DEF Delivery!Forget

\* One pop: the decodable records are held, the others are lost.
LEMMA PopRefines ==
  ASSUME PopInv, Pop
  PROVE  \E S \in SUBSET Record, kept \in SUBSET Record : Delivery!HandOver(S, kept)
<1>1. PICK S \in Poppable : queue' = queue \ S /\ batch' = S \ Malformed
  BY DEF Pop
<1>2. S \subseteq queue /\ S \subseteq Record
  BY PoppableInQueue DEF PopInv, TypeOK
<1>3. pc = "pop" /\ pc' = "insert" /\ offered' = offered /\ landed' = landed
  BY DEF Pop, history
<1>4. Status' = [r \in Record |-> IF r \in S \ Malformed THEN "held"
                                  ELSE IF r \in S THEN "lost" ELSE Status[r]]
  BY <1>1, <1>2, <1>3 DEF PopInv, TypeOK, OnePlace, Status
<1>5. Delivery!HandOver(S, S \ Malformed)
  BY <1>2, <1>3, <1>4, Held, Queued DEF Delivery!HandOver
<1>6. QED
  BY <1>2, <1>5

\* The commit of a batch.
LEMMA InsertRefines ==
  ASSUME PopInv, Insert
  PROVE  Delivery!Land
<1>1. pc = "insert" /\ pc' = "count" /\ landed' = landed \union batch
      /\ queue' = queue /\ offered' = offered
  BY DEF Insert
<1>2. QED
  BY <1>1, Held DEF PopInv, TypeOK, OnePlace, Status, Delivery!Land, Delivery!Move

\* The cycle breaks off before the commit.
LEMMA AbandonRefines ==
  ASSUME PopInv, pc = "insert", pc' # "insert", UNCHANGED <<offered, queue, landed>>
  PROVE  Delivery!Lose
  BY Held DEF PopInv, TypeOK, OnePlace, Status, Delivery!Lose, Delivery!Move

LEMMA StepRefines == PopInv /\ [Next]_vars => [Delivery!Next]_Status
<1> SUFFICES ASSUME PopInv, [Next]_vars PROVE Delivery!Next \/ Status' = Status
  OBVIOUS
<1> USE DEF ledger, stamp, health, fiber, history, bounds
<1>1. ASSUME NEW r \in Record, Offer(r) PROVE Delivery!Next
  BY <1>1, OfferRefines DEF Delivery!Next
<1>2. ASSUME NEW r \in Record, Expire(r) PROVE Delivery!Next
  <2>1. /\ {r} \in SUBSET queue /\ queue' = queue \ {r}
        /\ UNCHANGED <<offered, landed>> /\ pc' = pc /\ batch' = batch
    BY <1>2 DEF Expire
  <2>2. Delivery!Forget({r})
    BY <2>1, ForgetRefines
  <2>3. QED
    BY <2>2 DEF Delivery!Next
<1>3. CASE Pop
  BY <1>3, PopRefines DEF Delivery!Next
<1>4. CASE Insert
  BY <1>4, InsertRefines DEF Delivery!Next
<1>5. CASE PopReplyLost
  <2>1. PICK S \in Poppable : queue' = queue \ S
    BY <1>5 DEF PopReplyLost
  <2>2. S \in SUBSET queue /\ S \in SUBSET Record
    BY PoppableInQueue DEF PopInv, TypeOK
  <2>3. Delivery!Forget(S)
    BY <1>5, <2>1, <2>2, ForgetRefines DEF PopReplyLost, Abandon
  <2>4. QED
    BY <2>2, <2>3 DEF Delivery!Next
<1>6. CASE StatementFails \/ Crash
  <2>1. UNCHANGED <<offered, queue, landed>> /\ pc' # "insert"
    BY <1>6 DEF StatementFails, Crash, Abandon
  <2>2. QED
    BY <2>1, AbandonRefines, StatusStutters DEF Delivery!Next
<1>7. CASE Count \/ StampAt \/ StampCount \/ Clear \/ ClearAt \/ Note \/ NoteAt
             \/ PopRefused \/ NoteFails \/ Start
  <2>1. UNCHANGED <<offered, queue, landed>> /\ pc # "insert" /\ pc' # "insert"
    BY <1>7 DEF Count, StampAt, StampCount, Clear, ClearAt, Note, NoteAt, PopRefused, Abandon,
                NoteFails, Start, Goto
  <2>2. QED
    BY <2>1, StatusStutters
<1>8. CASE UNCHANGED vars
  BY <1>8 DEF vars, Status
<1>9. QED
  BY <1>1, <1>2, <1>3, <1>4, <1>5, <1>6, <1>7, <1>8 DEF Next, Gateway, Cycle, Failure

\* The pop loop implements RecordDelivery: every hand-over is final and a batch
\* lands or is lost as a whole, for any faults and crashes.
THEOREM PopImplementsDelivery == Spec => HandedOverOnce
<1>1. QED
  BY InitRefines, StepRefines, Invariance, PTL DEF Spec, HandedOverOnce, Delivery!Spec
=============================================================================
