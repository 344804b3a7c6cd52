-------------------------- MODULE SnapshotsProofs --------------------------
(***************************************************************************)
(* Theorems about Snapshots and Runway for every set of credentials, every *)
(* set of quotas, every length of history and every span.                  *)
(***************************************************************************)
EXTENDS Runway, SequenceTheorems, FiniteSetTheorems, TLAPS

\* The moments: nothing is dated after the running poll, and what the running
\* cycle dates is newer than last_snapshot_at.
MomentsInv ==
  /\ \A c \in Credential : \A i \in DOMAIN rows[c] : rows[c][i].recorded <= recordedAt
  /\ lastSnapshot <= recordedAt
  /\ pc # "idle" => lastSnapshot < recordedAt

\* The running cycle: whom it has upserted, whom it has recorded.
CycleInv ==
  /\ pc = "upsert" => \A c \in DOMAIN poll \ todo : lastSeen[c] = recordedAt
  /\ pc \in {"record", "stamp"} => \A c \in DOMAIN poll : lastSeen[c] = recordedAt
  /\ pc \in {"record", "stamp"} => \A c \in DOMAIN poll \ todo : Unchanged(c)
  /\ pc = "stamp" => todo = {}

SnapInv ==
  /\ TypeOK /\ MomentsInv /\ CycleInv
  /\ OnlyChangesRecorded /\ SnapshotsHaveOwners /\ LastSnapshotIsStored

-----------------------------------------------------------------------------
(* Inductions, over sets in place of predicates. *)

\* A set of naturals has a least element: what the inductions below rest on.
LEMMA LeastExists ==
  ASSUME NEW S \in SUBSET Nat, S # {}
  PROVE  \E x \in S : \A y \in S : x <= y
<1>1. PICK x \in S : \A y \in S : ~(<<y, x>> \in OpToRel(<, Nat))
  BY NatLessThanWellFounded, WFMin, Zenon
<1>2. \A y \in S : ~(y < x)
  BY <1>1 DEF OpToRel
<1> QED  BY <1>2

\* Induction up to n, for a set in place of a predicate.
LEMMA AllUpTo ==
  ASSUME NEW n \in Nat, NEW G, 0 \in G, \A i \in 1..n : i - 1 \in G => i \in G
  PROVE  \A i \in 0..n : i \in G
<1> DEFINE Bad == {i \in 0..n : i \notin G}
<1> SUFFICES ASSUME Bad # {}  PROVE FALSE
  OBVIOUS
<1>1. PICK k \in Bad : \A j \in Bad : k <= j
  <2>1. Bad \in SUBSET Nat
    OBVIOUS
  <2> HIDE DEF Bad
  <2> QED  BY <2>1, LeastExists
<1>2. k \in 1..n /\ k - 1 \in 0..n /\ ~(k <= k - 1)
  OBVIOUS
<1>3. k - 1 \in G
  BY <1>1, <1>2
<1> QED  BY <1>2, <1>3

\* A function may be defined by recursion on how far a sequence has been read:
\* from a, one step after the other.
LEMMA RecursionExists ==
  ASSUME NEW A, NEW a \in A, NEW n \in Nat, NEW step \in [1..n -> [A -> A]]
  PROVE  \E f \in [0..n -> A] : f[0] = a /\ \A i \in 1..n : f[i] = step[i][f[i - 1]]
<1> DEFINE Runs(f, k) == f[0] = a /\ \A i \in 1..k : f[i] = step[i][f[i - 1]]
           Reached == {k \in 0..n : \E f \in [0..k -> A] : Runs(f, k)}
<1>1. 0 \in Reached
  <2>1. [i \in 0..0 |-> a] \in [0..0 -> A] /\ Runs([i \in 0..0 |-> a], 0) /\ 0 \in 0..n
    OBVIOUS
  <2> HIDE DEF Runs
  <2> QED  BY <2>1
<1>2. ASSUME NEW k \in 1..n, k - 1 \in Reached
      PROVE  k \in Reached
  <2>1. PICK f \in [0..(k - 1) -> A] : Runs(f, k - 1)
    BY <1>2
  <2> DEFINE g == [i \in 0..k |-> IF i = k THEN step[k][f[k - 1]] ELSE f[i]]
  <2>2. k - 1 \in 0..(k - 1) /\ k \in 0..n
    OBVIOUS
  <2>3. step[k][f[k - 1]] \in A
    BY <2>2
  <2>4. g \in [0..k -> A] /\ g[0] = a
    BY <2>1, <2>3
  <2>5. ASSUME NEW i \in 1..k  PROVE g[i] = step[i][g[i - 1]]
    <3>1. CASE i = k
      BY <2>2, <3>1
    <3>2. CASE i # k
      <4>1. i \in 1..(k - 1) /\ i \in 0..k /\ i - 1 \in 0..k /\ i - 1 # k
        BY <3>2
      <4> QED  BY <2>1, <3>2, <4>1
    <3> QED  BY <3>1, <3>2
  <2>6. Runs(g, k)
    BY <2>4, <2>5
  <2> HIDE DEF Runs, g
  <2> QED  BY <2>2, <2>4, <2>6
<1>3. n \in Reached
  <2> HIDE DEF Reached
  <2>1. n \in 0..n
    OBVIOUS
  <2> QED  BY <1>1, <1>2, <2>1, AllUpTo
<1> QED  BY <1>3

\* The greatest of a set of ids.
LEMMA MaxIs ==
  ASSUME NEW S \in SUBSET Int, NEW k \in S, \A j \in S : k >= j
  PROVE  Max(S) = k
<1>1. \E x \in S : \A y \in S : x >= y
  OBVIOUS
<1>2. Max(S) \in S /\ \A y \in S : Max(S) >= y
  BY <1>1, Zenon DEF Max
<1>3. Max(S) >= k /\ k >= Max(S)
  BY <1>2
<1>4. Max(S) \in Int /\ k \in Int
  BY <1>2
<1> QED  BY <1>3, <1>4

\* A set of ids that is not empty has one.
LEMMA MaxExists ==
  ASSUME NEW n \in Nat, NEW S \in SUBSET (1..n), S # {}
  PROVE  Max(S) \in S /\ \A j \in S : Max(S) >= j
<1> DEFINE T == {n - i : i \in S}
<1>1. T \subseteq Nat /\ T # {}
  <2>1. \A i \in S : i \in 1..n /\ n - i \in Nat
    OBVIOUS
  <2>2. \E i \in S : n - i \in T
    OBVIOUS
  <2> QED  BY <2>1, <2>2
<1>2. PICK x \in T : \A y \in T : x <= y
  <2> HIDE DEF T
  <2> QED  BY <1>1, LeastExists
<1>3. PICK k \in S : x = n - k
  BY <1>2
<1>4. \A j \in S : k >= j
  <2> SUFFICES ASSUME NEW j \in S  PROVE k >= j
    OBVIOUS
  <2>1. n - j \in T /\ n - j \in Nat /\ n - k \in Nat
    BY <1>1
  <2>2. x <= n - j
    BY <1>2, <2>1
  <2>3. n \in Int /\ j \in Int /\ k \in Int
    OBVIOUS
  <2> QED  BY <1>3, <2>2, <2>3
<1>5. Max(S) = k
  BY <1>4, MaxIs
<1> QED  BY <1>4, <1>5

-----------------------------------------------------------------------------
(* The history of a range, in any state the loop leaves. *)

\* What TypeOK says of the rows of one credential.
LEMMA RowsOf ==
  ASSUME TypeOK, NEW c \in Credential
  PROVE  /\ rows[c] \in Seq(SnapshotRow)
         /\ Len(rows[c]) \in Nat /\ DOMAIN rows[c] = 1..Len(rows[c])
         /\ \A i \in DOMAIN rows[c] : /\ rows[c][i].observed \in Nat
                                      /\ rows[c][i].recorded \in Nat
                                      /\ rows[c][i].quota \in Quota
<1>1. rows[c] \in Seq(SnapshotRow)
  BY DEF TypeOK
<1>2. Len(rows[c]) \in Nat /\ DOMAIN rows[c] = 1..Len(rows[c])
  BY <1>1
<1>3. \A i \in DOMAIN rows[c] : rows[c][i] \in SnapshotRow
  BY <1>1, <1>2
<1>4. Moment \subseteq Nat
  BY BoundAssumption DEF Moment
<1> QED  BY <1>1, <1>2, <1>3, <1>4 DEF SnapshotRow

\* The reader's range clause and its one point before, put together.
LEMMA HistoryIsComplete == TypeOK => HistoryComplete
<1> SUFFICES ASSUME TypeOK, NEW c \in Credential, NEW range \in Ranges, InOrder(c)
             PROVE  LET before == {i \in DOMAIN rows[c] : rows[c][i].observed < range.from}
                    IN  HistoryIds(c, range) =
                          InRange(c, range) \union IF before = {} THEN {} ELSE {Max(before)}
  BY DEF HistoryComplete
<1> DEFINE before == {i \in DOMAIN rows[c] : rows[c][i].observed < range.from}
           observed(i) == rows[c][i].observed
<1>1. Len(rows[c]) \in Nat /\ DOMAIN rows[c] = 1..Len(rows[c])
      /\ \A i \in DOMAIN rows[c] : observed(i) \in Nat
  BY RowsOf
<1>2. range.from \in Nat /\ range.to \in Nat /\ range.from < range.to
  BY BoundAssumption DEF Ranges
<1>3. \A i, j \in DOMAIN rows[c] : i < j => observed(i) <= observed(j)
  BY DEF InOrder
<1>4. CASE before = {}
  <2>1. First(c, range.from) = 0
    BY <1>4 DEF First
  <2> QED  BY <1>1, <1>2, <1>4, <2>1 DEF HistoryIds, InRange
<1>5. CASE before # {}
  <2> DEFINE first == Max(before)
  <2>1. First(c, range.from) = first
    BY <1>5 DEF First
  <2>2. before \in SUBSET (1..Len(rows[c]))
    BY <1>1
  <2>3. first \in before /\ \A j \in before : first >= j
    <3> HIDE DEF before
    <3> QED  BY <1>1, <1>5, <2>2, MaxExists
  <2>4. HistoryIds(c, range) = {i \in DOMAIN rows[c] : observed(i) < range.to /\ i >= first}
    BY <2>1 DEF HistoryIds
  <2>5. InRange(c, range) =
          {i \in DOMAIN rows[c] : observed(i) >= range.from /\ observed(i) < range.to}
    BY DEF InRange
  <2>6. ASSUME NEW i \in DOMAIN rows[c], observed(i) < range.to, i >= first
        PROVE  observed(i) >= range.from \/ i = first
    <3>1. CASE i \in before
      <4>1. first >= i /\ first \in Int /\ i \in Int
        BY <1>1, <2>2, <2>3, <3>1
      <4> HIDE DEF first, before
      <4> QED  BY <2>6, <4>1
    <3>2. CASE i \notin before
      BY <1>1, <1>2, <3>2
    <3> QED  BY <3>1, <3>2
  <2>7. ASSUME NEW i \in DOMAIN rows[c], observed(i) >= range.from
        PROVE  i >= first
    <3>1. first \in DOMAIN rows[c] /\ observed(first) < range.from
      BY <2>3
    <3> HIDE DEF first
    <3> QED  BY <1>1, <1>2, <1>3, <2>7, <3>1
  <2>8. first \in DOMAIN rows[c] /\ observed(first) < range.to
    <3>1. first \in DOMAIN rows[c] /\ observed(first) < range.from
      BY <2>3
    <3> HIDE DEF first
    <3> QED  BY <1>1, <1>2, <3>1
  <2>9. first >= first
    <3>1. first \in 1..Len(rows[c])
      BY <1>1, <2>8
    <3> HIDE DEF first
    <3> QED  BY <3>1
  <2>10. HistoryIds(c, range) = InRange(c, range) \union {first}
    <3> HIDE DEF first, before, observed
    <3> QED  BY <2>4, <2>5, <2>6, <2>7, <2>8, <2>9
  <2> QED  BY <1>5, <2>10
<1> QED  BY <1>4, <1>5

-----------------------------------------------------------------------------
(* The steps. *)

LEMMA InitSnap == Init => SnapInv
<1> SUFFICES ASSUME Init  PROVE SnapInv
  OBVIOUS
<1>1. /\ DOMAIN poll = {} /\ DOMAIN stamped = {}
      /\ \A c \in Credential : rows[c] = <<>> /\ DOMAIN rows[c] = {} /\ Len(rows[c]) = 0
  BY DEF Init
<1>2. TypeOK
  BY <1>1, QuotaAssumption, BoundAssumption DEF Init, TypeOK, Observation, Moment, None
<1>3. MomentsInv /\ CycleInv
  BY <1>1 DEF Init, MomentsInv, CycleInv, None
<1>4. OnlyChangesRecorded /\ SnapshotsHaveOwners /\ LastSnapshotIsStored
  BY <1>1 DEF OnlyChangesRecorded, SnapshotsHaveOwners, LastSnapshotIsStored
<1> QED  BY <1>2, <1>3, <1>4 DEF SnapInv

\* Observing keeps observations well formed.
LEMMA ObservedWell ==
  ASSUME TypeOK, NEW c \in Credential, NEW at \in Moment
  PROVE  /\ Headers(c, at) \subseteq Observation
         /\ \A header \in Observation : Observations(c, header, at) \subseteq Observation
  BY DEF TypeOK, Headers, Observations, Observation

LEMMA PollKeeps ==
  ASSUME SnapInv, Poll
  PROVE  SnapInv'
<1>1. PICK at \in (recordedAt + 1)..MaxTime, listed \in SUBSET Credential :
        \E newest \in {h \in [Credential -> UNION {Headers(c, at) : c \in Credential}] :
                         \A c \in Credential : h[c] \in Headers(c, at)} :
          /\ headers' = newest
          /\ poll' \in {p \in [listed -> UNION {Observations(c, newest[c], at) : c \in listed}] :
                          \A c \in listed : p[c] \in Observations(c, newest[c], at)}
          /\ recordedAt' = at
          /\ todo' = listed
  BY DEF Poll
<1>2. /\ pc = "idle" /\ pc' = "upsert" /\ UNCHANGED <<lastSeen, rows, lastSnapshot, stamped>>
  BY DEF Poll, ledger, stamps
<1>3. recordedAt \in Nat /\ at \in Moment /\ recordedAt < at
  BY BoundAssumption DEF SnapInv, TypeOK, Moment
<1>4. headers' \in [Credential -> Observation] /\ \A c \in Credential : headers'[c] \in Observation
  BY <1>1, <1>3, ObservedWell DEF SnapInv
<1>5. poll' \in [listed -> Observation]
  <2>1. /\ poll' \in [listed -> UNION {Observations(c, headers'[c], at) : c \in listed}]
        /\ \A c \in listed : poll'[c] \in Observations(c, headers'[c], at)
    BY <1>1
  <2>2. \A c \in listed : poll'[c] \in Observation
    BY <1>3, <1>4, <2>1, ObservedWell DEF SnapInv
  <2> QED  BY <2>1, <2>2
<1>6. DOMAIN poll' = listed /\ todo' = listed /\ recordedAt' = at
  BY <1>1, <1>5
<1>7. TypeOK'
  BY <1>2, <1>3, <1>4, <1>5, <1>6 DEF SnapInv, TypeOK
<1>8. MomentsInv'
  <2>1. \A c \in Credential : \A i \in DOMAIN rows[c] : rows[c][i].recorded <= at
    BY <1>3, RowsOf DEF SnapInv, MomentsInv, Moment
  <2>2. lastSnapshot < at
    BY <1>3 DEF SnapInv, MomentsInv, TypeOK, Moment, None
  <2>3. lastSnapshot <= at
    BY <1>3, <2>2 DEF SnapInv, TypeOK, Moment, None
  <2> QED  BY <1>2, <1>6, <2>1, <2>2, <2>3 DEF MomentsInv
<1>9. CycleInv'
  BY <1>2, <1>6 DEF CycleInv
<1>10. OnlyChangesRecorded' /\ SnapshotsHaveOwners' /\ LastSnapshotIsStored'
  BY <1>2 DEF SnapInv, OnlyChangesRecorded, SnapshotsHaveOwners, LastSnapshotIsStored
<1> QED  BY <1>7, <1>8, <1>9, <1>10 DEF SnapInv

\* What an upsert, or a step that leaves the tables alone, keeps.
LEMMA UpsertKeeps ==
  ASSUME SnapInv, UpsertNext
  PROVE  SnapInv'
<1> USE DEF SnapInv
<1>1. pc = "upsert" /\ UNCHANGED <<headers, rows, lastSnapshot, stamped, poll, recordedAt>>
  BY DEF UpsertNext, stamps
<1>2. OnlyChangesRecorded' /\ LastSnapshotIsStored'
  BY <1>1 DEF OnlyChangesRecorded, LastSnapshotIsStored
<1>3. ASSUME NEW c \in todo, Upsert(c), todo' = todo \ {c}, pc' = pc
      PROVE  SnapInv'
  <2>1. c \in Credential /\ lastSeen' = [lastSeen EXCEPT ![c] = recordedAt]
    BY <1>3 DEF TypeOK, Upsert
  <2>2. TypeOK'
    BY <1>1, <1>3, <2>1 DEF TypeOK
  <2>3. MomentsInv'
    BY <1>1, <1>3 DEF MomentsInv
  <2>4. CycleInv'
    BY <1>1, <1>3, <2>1 DEF CycleInv, TypeOK
  <2>5. SnapshotsHaveOwners'
    BY <1>1, <2>1 DEF SnapshotsHaveOwners, MomentsInv, TypeOK, Moment
  <2> QED  BY <1>2, <2>2, <2>3, <2>4, <2>5
<1>4. CASE todo = {} /\ todo' = DOMAIN poll /\ pc' = "record" /\ UNCHANGED lastSeen
  <2>1. TypeOK' /\ MomentsInv' /\ SnapshotsHaveOwners'
    BY <1>1, <1>4 DEF TypeOK, MomentsInv, SnapshotsHaveOwners
  <2>2. CycleInv'
    BY <1>1, <1>4 DEF CycleInv
  <2> QED  BY <1>2, <2>1, <2>2
<1> QED  BY <1>3, <1>4 DEF UpsertNext

\* A row for a credential the running cycle has observed.
LEMMA RowWell ==
  ASSUME SnapInv, NEW c \in DOMAIN poll
  PROVE  /\ Row(poll[c]) \in SnapshotRow
         /\ Row(poll[c]).quota = poll[c].quota /\ Row(poll[c]).recorded = recordedAt
<1>1. poll[c] \in Observation /\ recordedAt \in Moment
  BY DEF SnapInv, TypeOK
<1> QED  BY <1>1 DEF Row, Observation, SnapshotRow

\* The row that is appended: the rest stays, and it is a change.
LEMMA RecordKeeps ==
  ASSUME SnapInv, pc = "record", NEW c \in todo, Record(c), todo' = todo \ {c}, pc' = pc,
         UNCHANGED <<headers, lastSeen, lastSnapshot, stamped, poll, recordedAt>>
  PROVE  SnapInv'
<1> USE DEF SnapInv
<1>1. c \in Credential /\ c \in DOMAIN poll
  BY DEF TypeOK
<1>2. /\ \A d \in Credential : rows[d] \in Seq(SnapshotRow)
      /\ DOMAIN rows = Credential /\ DOMAIN rows' = Credential
      /\ \A d \in Credential \ {c} : rows'[d] = rows[d]
  BY <1>1 DEF TypeOK, Record
<1>3. CASE Unchanged(c)
  <2>1. rows' = rows
    <3>1. rows' = [rows EXCEPT ![c] = rows[c]]
      BY <1>3 DEF Record
    <3> QED  BY <3>1 DEF TypeOK
  <2>2. TypeOK' /\ MomentsInv' /\ OnlyChangesRecorded' /\ SnapshotsHaveOwners'
        /\ LastSnapshotIsStored'
    BY <2>1
    DEF TypeOK, MomentsInv, OnlyChangesRecorded, SnapshotsHaveOwners, LastSnapshotIsStored
  <2>3. CycleInv'
    BY <1>3, <2>1 DEF CycleInv, Unchanged, LastRow
  <2> QED  BY <2>2, <2>3
<1>4. CASE ~Unchanged(c)
  <2> DEFINE row == Row(poll[c])
             n   == Len(rows[c])
  <2>1. rows'[c] = Append(rows[c], row)
    BY <1>1, <1>4 DEF Record, TypeOK
  <2>2. row \in SnapshotRow /\ row.quota = poll[c].quota /\ row.recorded = recordedAt
    BY <1>1, RowWell
  <2> HIDE DEF row
  <2>3. /\ n \in Nat /\ rows'[c] \in Seq(SnapshotRow) /\ Len(rows'[c]) = n + 1
        /\ \A i \in 1..n : rows'[c][i] = rows[c][i]
        /\ rows'[c][n + 1] = row
        /\ DOMAIN rows[c] = 1..n /\ DOMAIN rows'[c] = 1..(n + 1)
    BY <1>1, <1>2, <2>1, <2>2, AppendProperties
  <2> HIDE DEF n
  <2>4. rows' \in [Credential -> Seq(SnapshotRow)]
    BY <1>2, <2>3 DEF TypeOK, Record
  <2>5. TypeOK'
    BY <2>4 DEF TypeOK
  <2>6. recordedAt \in Nat /\ lastSnapshot < recordedAt
    BY BoundAssumption DEF TypeOK, Moment, MomentsInv
  <2>7. MomentsInv'
    <3>1. \A i \in DOMAIN rows'[c] : rows'[c][i].recorded <= recordedAt
      BY <1>1, <2>2, <2>3, <2>6 DEF MomentsInv
    <3> QED  BY <1>2, <3>1 DEF MomentsInv
  <2>8. rows'[c] # <<>> /\ rows'[c][Len(rows'[c])].quota = poll[c].quota
    BY <2>2, <2>3
  <2>9. CycleInv'
    <3>1. \A d \in DOMAIN poll \ todo' : Unchanged(d)'
      BY <1>2, <2>8 DEF CycleInv, Unchanged, LastRow, TypeOK
    <3> QED  BY <3>1 DEF CycleInv
  <2>10. OnlyChangesRecorded'
    <3>1. n > 0 => rows[c][n].quota # poll[c].quota
      BY <1>2, <1>4, <2>3 DEF Unchanged, LastRow, n
    <3>2. \A i \in 1..n : rows'[c][i].quota # rows'[c][i + 1].quota
      <4> SUFFICES ASSUME NEW i \in 1..n  PROVE rows'[c][i].quota # rows'[c][i + 1].quota
        OBVIOUS
      <4>1. CASE i = n
        BY <2>2, <2>3, <3>1, <4>1
      <4>2. CASE i # n
        <5>1. i \in 1..(n - 1) /\ i + 1 \in 1..n
          BY <2>3, <4>2
        <5>2. rows[c][i].quota # rows[c][i + 1].quota
          BY <1>1, <5>1 DEF OnlyChangesRecorded, n
        <5> QED  BY <2>3, <5>1, <5>2
      <4> QED  BY <4>1, <4>2
    <3>3. 1..(Len(rows'[c]) - 1) = 1..n
      BY <2>3
    <3> QED  BY <1>2, <3>2, <3>3 DEF OnlyChangesRecorded
  <2>11. SnapshotsHaveOwners'
    <3>1. lastSeen[c] = recordedAt
      BY <1>1 DEF CycleInv
    <3>2. \A i \in DOMAIN rows'[c] : lastSeen[c] >= rows'[c][i].recorded
      BY <2>2, <2>3, <2>6, <3>1, <1>1 DEF SnapshotsHaveOwners
    <3> QED  BY <1>2, <3>2 DEF SnapshotsHaveOwners
  <2>12. LastSnapshotIsStored'
    <3> SUFFICES ASSUME NEW d \in DOMAIN stamped
                 PROVE  LET recorded == {i \in DOMAIN rows'[d] : rows'[d][i].recorded <= lastSnapshot}
                        IN  recorded # {} /\ rows'[d][Max(recorded)].quota = stamped[d].quota
      BY DEF LastSnapshotIsStored
    <3>1. d \in Credential
      BY DEF TypeOK
    <3>2. CASE d # c
      BY <1>2, <3>1, <3>2 DEF LastSnapshotIsStored
    <3>3. CASE d = c
      <4> DEFINE before == {i \in DOMAIN rows[c] : rows[c][i].recorded <= lastSnapshot}
                 after  == {i \in DOMAIN rows'[c] : rows'[c][i].recorded <= lastSnapshot}
      <4>1. lastSnapshot \in Int /\ ~(row.recorded <= lastSnapshot)
        BY <2>2, <2>6 DEF TypeOK, Moment, None
      <4>2. after = before /\ before \subseteq 1..n
        BY <2>3, <4>1
      <4>3. before # {} /\ rows[c][Max(before)].quota = stamped[c].quota
        BY <3>3 DEF LastSnapshotIsStored
      <4>4. Max(before) \in 1..n
        <5> HIDE DEF before
        <5> QED  BY <2>3, <4>2, <4>3, MaxExists
      <4>5. rows'[c][Max(after)] = rows[c][Max(before)]
        BY <2>3, <4>2, <4>4
      <4> QED  BY <3>3, <4>2, <4>3, <4>5
    <3> QED  BY <3>2, <3>3
  <2> QED  BY <2>5, <2>7, <2>9, <2>10, <2>11, <2>12
<1> QED  BY <1>3, <1>4

LEMMA RecordNextKeeps ==
  ASSUME SnapInv, RecordNext
  PROVE  SnapInv'
<1>1. pc = "record" /\ UNCHANGED <<headers, lastSeen, lastSnapshot, stamped, poll, recordedAt>>
  BY DEF RecordNext, stamps
<1>2. CASE \E c \in todo : Record(c) /\ todo' = todo \ {c} /\ pc' = pc
  BY <1>1, <1>2, RecordKeeps
<1>3. CASE todo = {} /\ pc' = "stamp" /\ UNCHANGED <<rows, todo>>
  <2>1. TypeOK'
    BY <1>1, <1>3 DEF SnapInv, TypeOK
  <2>2. MomentsInv' /\ CycleInv'
    BY <1>1, <1>3 DEF SnapInv, MomentsInv, CycleInv, Unchanged, LastRow
  <2>3. OnlyChangesRecorded' /\ SnapshotsHaveOwners' /\ LastSnapshotIsStored'
    BY <1>1, <1>3 DEF SnapInv, OnlyChangesRecorded, SnapshotsHaveOwners, LastSnapshotIsStored
  <2> QED  BY <2>1, <2>2, <2>3 DEF SnapInv
<1> QED  BY <1>2, <1>3 DEF RecordNext

\* At the stamp, all that is stored was recorded by now.
LEMMA StampKeeps ==
  ASSUME SnapInv, Stamp
  PROVE  SnapInv'
<1> USE DEF SnapInv
<1>1. /\ pc = "stamp" /\ pc' = "idle" /\ todo = {}
      /\ lastSnapshot' = recordedAt /\ stamped' = poll /\ poll' = <<>>
      /\ UNCHANGED <<headers, lastSeen, rows, recordedAt, todo>>
  BY DEF Stamp, ledger, CycleInv
<1>2. DOMAIN poll' = {} /\ poll' \in [DOMAIN poll' -> Observation]
  BY <1>1
<1>3. TypeOK'
  BY <1>1, <1>2 DEF TypeOK
<1>4. MomentsInv' /\ CycleInv' /\ OnlyChangesRecorded' /\ SnapshotsHaveOwners'
  BY <1>1, BoundAssumption
  DEF MomentsInv, CycleInv, OnlyChangesRecorded, SnapshotsHaveOwners, TypeOK, Moment
<1>5. ASSUME NEW c \in DOMAIN poll
      PROVE  LET recorded == {i \in DOMAIN rows[c] : rows[c][i].recorded <= recordedAt}
             IN  recorded # {} /\ rows[c][Max(recorded)].quota = poll[c].quota
  <2>1. c \in Credential /\ Unchanged(c)
    BY <1>1 DEF TypeOK, CycleInv
  <2>2. Len(rows[c]) \in Nat /\ DOMAIN rows[c] = 1..Len(rows[c]) /\ rows[c] \in Seq(SnapshotRow)
    BY <2>1, RowsOf
  <2>3. {i \in DOMAIN rows[c] : rows[c][i].recorded <= recordedAt} = 1..Len(rows[c])
    BY <2>1, <2>2 DEF MomentsInv
  <2>4. Len(rows[c]) > 0
    BY <2>1, <2>2 DEF Unchanged
  <2>5. Max(1..Len(rows[c])) = Len(rows[c])
    <3> DEFINE n == Len(rows[c])
    <3>1. n \in 1..n /\ 1..n \in SUBSET Int /\ \A j \in 1..n : n >= j
      BY <2>2, <2>4
    <3> HIDE DEF n
    <3>2. Max(1..n) = n
      BY <3>1, MaxIs
    <3> QED  BY <3>2 DEF n
  <2>6. rows[c][Max(1..Len(rows[c]))].quota = poll[c].quota
    BY <2>1, <2>5 DEF Unchanged, LastRow
  <2>7. 1..Len(rows[c]) # {}
    <3>1. Len(rows[c]) \in 1..Len(rows[c])
      BY <2>2, <2>4
    <3> QED  BY <3>1
  <2> QED  BY <2>3, <2>6, <2>7
<1>6. LastSnapshotIsStored'
  BY <1>1, <1>5 DEF LastSnapshotIsStored
<1> QED  BY <1>3, <1>4, <1>6

LEMMA BreakOffKeeps ==
  ASSUME SnapInv, BreakOff
  PROVE  SnapInv'
<1>1. /\ pc' = "idle" /\ poll' = <<>> /\ todo' = {}
      /\ UNCHANGED <<headers, lastSeen, rows, lastSnapshot, stamped, recordedAt>>
  BY DEF BreakOff, ledger, stamps
<1>2. DOMAIN poll' = {} /\ poll' \in [DOMAIN poll' -> Observation]
  BY <1>1
<1>3. TypeOK'
  BY <1>1, <1>2 DEF SnapInv, TypeOK
<1>4. MomentsInv' /\ CycleInv'
  BY <1>1 DEF SnapInv, MomentsInv, CycleInv
<1>5. OnlyChangesRecorded' /\ SnapshotsHaveOwners' /\ LastSnapshotIsStored'
  BY <1>1 DEF SnapInv, OnlyChangesRecorded, SnapshotsHaveOwners, LastSnapshotIsStored
<1> QED  BY <1>3, <1>4, <1>5 DEF SnapInv

LEMMA StutterKeeps == SnapInv /\ UNCHANGED vars => SnapInv'
<1> SUFFICES ASSUME SnapInv, UNCHANGED vars  PROVE SnapInv'
  OBVIOUS
<1> USE DEF SnapInv
<1>1. UNCHANGED <<headers, lastSeen, rows, lastSnapshot, stamped, pc, poll, recordedAt, todo>>
  BY DEF vars, ledger, stamps
<1>2. TypeOK'
  BY <1>1 DEF TypeOK
<1>3. MomentsInv' /\ CycleInv'
  BY <1>1 DEF MomentsInv, CycleInv, Unchanged, LastRow
<1>4. OnlyChangesRecorded' /\ SnapshotsHaveOwners' /\ LastSnapshotIsStored'
  BY <1>1 DEF OnlyChangesRecorded, SnapshotsHaveOwners, LastSnapshotIsStored
<1> QED  BY <1>2, <1>3, <1>4

-----------------------------------------------------------------------------
\* The cycle of snapshotOnce: its invariant, with the three promises it carries.
THEOREM SnapInvariant == Spec => []SnapInv
<1>1. SnapInv /\ [Next]_vars => SnapInv'
  BY PollKeeps, UpsertKeeps, RecordNextKeeps, StampKeeps, BreakOffKeeps, StutterKeeps
  DEF Next, PollFails
<1> QED  BY <1>1, InitSnap, PTL DEF Spec

\* Types of the snapshot loop, whatever it observes.
THEOREM TypeCorrect == Spec => []TypeOK
  BY SnapInvariant, PTL DEF SnapInv

\* No snapshot repeats the one before it (recordQuotaSnapshot), whatever breaks off.
THEOREM ChangesOnly == Spec => []OnlyChangesRecorded
  BY SnapInvariant, PTL DEF SnapInv

\* last_snapshot_at vouches for what that poll observed of every credential.
THEOREM LastSnapshotTruthful == Spec => []LastSnapshotIsStored
  BY SnapInvariant, PTL DEF SnapInv

\* Every snapshot's credential is there and was seen no earlier.
THEOREM OwnersKnown == Spec => []SnapshotsHaveOwners
  BY SnapInvariant, PTL DEF SnapInv

\* A history stored in the order observed is read in full, with one point before.
THEOREM HistoryRead == Spec => []HistoryComplete
  BY TypeCorrect, HistoryIsComplete, PTL

-----------------------------------------------------------------------------
(* The abstract log. *)

\* A credential's log is as long as its rows and ends as they do.
LEMMA LogIs ==
  ASSUME TypeOK, NEW c \in Credential
  PROVE  /\ Len(rows[c]) \in Nat /\ DOMAIN rows[c] = 1..Len(rows[c])
         /\ Log[c] = [i \in 1..Len(rows[c]) |-> rows[c][i].quota]
         /\ Log[c] \in Seq(Quota) /\ Len(Log[c]) = Len(rows[c])
         /\ Log[c] = <<>> <=> rows[c] = <<>>
<1> DEFINE n == Len(rows[c])
           log == [i \in 1..n |-> rows[c][i].quota]
<1>1. n \in Nat /\ DOMAIN rows[c] = 1..n /\ \A i \in 1..n : rows[c][i] \in SnapshotRow
  BY RowsOf
<1>2. Log[c] = log
  BY <1>1 DEF Log
<1>3. log \in [1..n -> Quota]
  BY <1>1 DEF SnapshotRow
<1> HIDE DEF log
<1>4. log \in Seq(Quota) /\ DOMAIN log = 1..n
  <2> HIDE DEF n
  <2> QED  BY <1>1, <1>3, SeqDef
<1> DEFINE m == Len(log)
<1>5. m \in Nat /\ 1..n = 1..m
  BY <1>4
<1>6. m = n
  <2> HIDE DEF m, n
  <2>1. (n # 0 => n \in 1..m) /\ (m # 0 => m \in 1..n)
    BY <1>1, <1>5
  <2> QED  BY <1>1, <1>5, <2>1
<1>7. log = <<>> <=> rows[c] = <<>>
  <2>1. log = <<>> <=> Len(log) = 0
    BY <1>4, EmptySeq
  <2>2. rows[c] \in Seq(SnapshotRow)
    BY DEF TypeOK
  <2>3. rows[c] = <<>> <=> n = 0
    BY <2>2, EmptySeq
  <2> QED  BY <1>6, <2>1, <2>3
<1> QED  BY <1>1, <1>2, <1>4, <1>6, <1>7 DEF log

\* The log ends with what the next quota is compared with.
LEMMA LogEnds ==
  ASSUME TypeOK, NEW c \in DOMAIN poll
  PROVE  Unchanged(c) <=> Changelog!EndsWith(c, poll[c].quota)
<1>1. c \in Credential
  BY DEF TypeOK
<1>2. /\ Len(rows[c]) \in Nat /\ Len(Log[c]) = Len(rows[c])
      /\ Log[c] = <<>> <=> rows[c] = <<>>
      /\ Log[c] = [i \in 1..Len(rows[c]) |-> rows[c][i].quota]
  BY <1>1, LogIs
<1>3. rows[c] # <<>> => Len(rows[c]) \in 1..Len(rows[c])
  <2>1. rows[c] \in Seq(SnapshotRow)
    BY <1>1 DEF TypeOK
  <2>2. rows[c] = <<>> <=> Len(rows[c]) = 0
    BY <2>1, EmptySeq
  <2> QED  BY <1>2, <2>2
<1>4. rows[c] # <<>> => Log[c][Len(Log[c])] = rows[c][Len(rows[c])].quota
  BY <1>2, <1>3
<1> QED  BY <1>2, <1>4 DEF Unchanged, LastRow, Changelog!EndsWith

\* Recording a credential adds its changed quota to its log, or nothing.
LEMMA RecordLogs ==
  ASSUME TypeOK, NEW c \in DOMAIN poll, Record(c), UNCHANGED stamped
  PROVE  UNCHANGED <<Log, Vouched>> \/ Changelog!Change(c, poll[c].quota)
<1>1. c \in Credential
  BY DEF TypeOK
<1>2. UNCHANGED Vouched
  BY DEF Vouched
<1>3. CASE Unchanged(c)
  <2>1. rows' = rows
    <3>1. rows' = [rows EXCEPT ![c] = rows[c]]
      BY <1>3 DEF Record
    <3> QED  BY <3>1 DEF TypeOK
  <2> QED  BY <1>2, <2>1 DEF Log
<1>4. CASE ~Unchanged(c)
  <2> DEFINE row == Row(poll[c])
             n   == Len(rows[c])
             old == rows[c]
             new == Append(old, row)
  <2>1. rows'[c] = new /\ \A d \in Credential : d # c => rows'[d] = rows[d]
    BY <1>1, <1>4 DEF Record, TypeOK
  <2>2. row.quota = poll[c].quota
    BY DEF Row
  <2>3. old \in Seq(SnapshotRow) /\ n \in Nat /\ DOMAIN old = 1..n
    BY <1>1, LogIs DEF TypeOK
  <2> HIDE DEF row
  <2>4. /\ DOMAIN new = 1..(n + 1) /\ new[n + 1] = row
        /\ \A i \in 1..n : new[i] = old[i]
    BY <2>3
  <2> DEFINE log == [i \in 1..n |-> old[i].quota]
  <2>5. Log[c] = log /\ Log[c] \in Seq(Quota) /\ Len(Log[c]) = n
    BY <1>1, LogIs
  <2>6. Log'[c] = [i \in 1..(n + 1) |-> new[i].quota]
    BY <1>1, <2>1, <2>4 DEF Log
  <2> HIDE DEF new, old, n
  <2>7. Append(log, row.quota) = [i \in 1..(n + 1) |-> IF i = n + 1 THEN row.quota ELSE log[i]]
    BY <2>3, <2>5
  <2>8. \A i \in 1..(n + 1) : new[i].quota = IF i = n + 1 THEN row.quota ELSE log[i]
    BY <2>3, <2>4
  <2> HIDE DEF log
  <2>9. Log'[c] = Append(Log[c], poll[c].quota)
    BY <2>2, <2>5, <2>6, <2>7, <2>8
  <2>10. \A d \in Credential : d # c => Log'[d] = Log[d]
    BY <2>1 DEF Log
  <2>11. Log' = [Log EXCEPT ![c] = Append(Log[c], poll[c].quota)]
    <3>1. /\ Log = [d \in Credential |-> Log[d]]
          /\ Log' = [d \in Credential |-> Log'[d]]
      BY DEF Log
    <3> QED  BY <1>1, <2>9, <2>10, <3>1
  <2> QED  BY <1>2, <1>4, <2>11, LogEnds DEF Changelog!Change
<1> QED  BY <1>3, <1>4

\* The stamp vouches for the logs of the credentials polled.
LEMMA StampVouches ==
  ASSUME SnapInv, Stamp
  PROVE  \E S \in SUBSET Credential : \E quotas \in [S -> Quota] : Changelog!Vouch(quotas)
<1> DEFINE S == DOMAIN poll
           quotas == [c \in S |-> poll[c].quota]
<1>1. S \in SUBSET Credential /\ \A c \in S : poll[c] \in Observation
  BY DEF SnapInv, TypeOK
<1>2. quotas \in [S -> Quota] /\ DOMAIN quotas = S
  BY <1>1 DEF Observation
<1>3. \A c \in S : Unchanged(c)
  BY DEF Stamp, SnapInv, CycleInv
<1>4. \A c \in DOMAIN quotas : Changelog!EndsWith(c, quotas[c])
  BY <1>3, LogEnds DEF SnapInv
<1>5. stamped' = poll /\ rows' = rows
  BY DEF Stamp, ledger
<1>6. Vouched' = quotas /\ Log' = Log
  BY <1>5 DEF Vouched, Log
<1> HIDE DEF quotas, S
<1> QED  BY <1>1, <1>2, <1>4, <1>6 DEF Changelog!Vouch

LEMMA StepLogs ==
  ASSUME SnapInv, [Next]_vars
  PROVE  [Changelog!Next]_<<Log, Vouched>>
<1>1. CASE RecordNext
  <2>1. stamped' = stamped
    BY <1>1 DEF RecordNext, stamps
  <2>2. CASE \E c \in todo : Record(c)
    <3>1. PICK c \in todo : Record(c)
      BY <2>2
    <3>2. c \in DOMAIN poll /\ c \in Credential /\ poll[c].quota \in Quota
      BY DEF SnapInv, TypeOK, Observation
    <3>3. UNCHANGED <<Log, Vouched>> \/ Changelog!Change(c, poll[c].quota)
      BY <2>1, <3>1, <3>2, RecordLogs DEF SnapInv
    <3> QED  BY <3>2, <3>3 DEF Changelog!Next
  <2>3. CASE rows' = rows
    BY <2>1, <2>3 DEF Log, Vouched
  <2> QED  BY <1>1, <2>2, <2>3 DEF RecordNext
<1>2. CASE Stamp
  BY <1>2, StampVouches DEF Changelog!Next
<1>3. CASE rows' = rows /\ stamped' = stamped
  BY <1>3 DEF Log, Vouched
<1>4. RecordNext \/ Stamp \/ (rows' = rows /\ stamped' = stamped)
  BY DEF Next, Poll, PollFails, UpsertNext, BreakOff, ledger, stamps, vars
<1> QED  BY <1>1, <1>2, <1>3, <1>4

LEMMA InitLogs == Init => Changelog!Init
<1> SUFFICES ASSUME Init  PROVE Changelog!Init
  OBVIOUS
<1>1. \A c \in Credential : [i \in DOMAIN rows[c] |-> rows[c][i].quota] = <<>>
  BY DEF Init
<1>2. Log = [c \in Credential |-> <<>>]
  BY <1>1 DEF Log
<1>3. Vouched = <<>>
  BY DEF Init, Vouched
<1> QED  BY <1>2, <1>3 DEF Changelog!Init

\* recordQuotaSnapshot and the stamp keep logs that only grow by changes and are
\* vouched for only while they end with what was observed (store.ts, collector.ts).
THEOREM SnapshotsImplementLog == Spec => LogsOnlyChanges
BY InitLogs, StepLogs, SnapInvariant, PTL DEF Spec, LogsOnlyChanges, Changelog!Spec

-----------------------------------------------------------------------------
(* The drawing of a history, row by row. *)

Percent == 0..100
PointRecord == [at : Moment, usedPercent : Percent, reset : BOOLEAN]
Drawn == [points : [Label -> Seq(PointRecord)], last : [Label -> {None} \union Percent]]

LEMMA WindowsAre ==
  ASSUME NEW q \in Quota, NEW l \in DOMAIN Windows[q]
  PROVE  l \in Label /\ Windows[q][l] \in Percent /\ Windows[q][l] # None
  BY QuotaAssumption DEF Label, Percent, None

LEMMA BlankIsDrawn == Blank \in Drawn
  BY DEF Blank, Drawn

LEMMA AddRowIsDrawn ==
  ASSUME NEW acc \in Drawn, NEW row \in SnapshotRow
  PROVE  AddRow(acc, row) \in Drawn
<1>1. ASSUME NEW l \in Label
      PROVE  (IF Changes(row, l, acc.last[l])
              THEN Append(acc.points[l], Point(row, l, acc.last[l])) ELSE acc.points[l])
               \in Seq(PointRecord)
  <2>1. acc.points[l] \in Seq(PointRecord) /\ acc.last[l] \in {None} \union Percent
    BY DEF Drawn
  <2>2. CASE Changes(row, l, acc.last[l])
    <3>1. row.quota \in Quota /\ row.observed \in Moment
      BY DEF SnapshotRow
    <3>2. Windows[row.quota][l] \in Percent
      BY <2>2, <3>1, WindowsAre DEF Changes
    <3>3. Point(row, l, acc.last[l]) \in PointRecord
      BY <3>1, <3>2 DEF Point, PointRecord
    <3> QED  BY <2>1, <2>2, <3>3
  <2> QED  BY <2>1, <2>2
<1>2. ASSUME NEW l \in Label
      PROVE  (IF l \in DOMAIN Windows[row.quota] THEN Windows[row.quota][l] ELSE acc.last[l])
               \in {None} \union Percent
  BY WindowsAre DEF Drawn, SnapshotRow
<1> QED  BY <1>1, <1>2 DEF AddRow, Drawn

\* The recursion of Drawing is one: it starts blank and adds a row at a time.
LEMMA DrawingIs ==
  ASSUME TypeOK, NEW c \in Credential, NEW ids
  PROVE  /\ Drawing(c, ids) \in [0..Len(rows[c]) -> Drawn]
         /\ Drawing(c, ids)[0] = Blank
         /\ \A i \in 1..Len(rows[c]) :
              Drawing(c, ids)[i] = IF i \in ids THEN AddRow(Drawing(c, ids)[i - 1], rows[c][i])
                                   ELSE Drawing(c, ids)[i - 1]
<1> DEFINE n == Len(rows[c])
           Eq(f) == f = [i \in 0..n |->
                           IF i = 0 THEN Blank
                           ELSE IF i \in ids THEN AddRow(f[i - 1], rows[c][i]) ELSE f[i - 1]]
           step == [i \in 1..n |-> [acc \in Drawn |-> IF i \in ids THEN AddRow(acc, rows[c][i]) ELSE acc]]
<1>1. n \in Nat /\ \A i \in 1..n : rows[c][i] \in SnapshotRow
  BY RowsOf
<1>2. step \in [1..n -> [Drawn -> Drawn]]
  <2>1. ASSUME NEW i \in 1..n, NEW acc \in Drawn
        PROVE  (IF i \in ids THEN AddRow(acc, rows[c][i]) ELSE acc) \in Drawn
    BY <1>1, <2>1, AddRowIsDrawn
  <2> HIDE DEF n
  <2> QED  BY <2>1
<1>3. PICK f \in [0..n -> Drawn] : f[0] = Blank /\ \A i \in 1..n : f[i] = step[i][f[i - 1]]
  <2> HIDE DEF step, n
  <2>1. n \in Nat /\ Blank \in Drawn
    BY <1>1, BlankIsDrawn
  <2> QED  BY <1>2, <2>1, RecursionExists
<1>4. \A i \in 1..n : i - 1 \in 0..n /\ f[i - 1] \in Drawn
                      /\ f[i] = IF i \in ids THEN AddRow(f[i - 1], rows[c][i]) ELSE f[i - 1]
  <2> SUFFICES ASSUME NEW i \in 1..n
               PROVE  /\ i - 1 \in 0..n /\ f[i - 1] \in Drawn
                      /\ f[i] = IF i \in ids THEN AddRow(f[i - 1], rows[c][i]) ELSE f[i - 1]
    OBVIOUS
  <2>1. i - 1 \in 0..n /\ f[i - 1] \in Drawn
    <3> HIDE DEF n
    <3> QED  BY <1>1, <1>3
  <2>2. step[i][f[i - 1]] = IF i \in ids THEN AddRow(f[i - 1], rows[c][i]) ELSE f[i - 1]
    <3> HIDE DEF n
    <3> QED  BY <2>1
  <2> QED  BY <1>3, <2>1, <2>2
<1>5. Eq(f)
  <2>1. ASSUME NEW i \in 0..n
        PROVE  f[i] = IF i = 0 THEN Blank
                      ELSE IF i \in ids THEN AddRow(f[i - 1], rows[c][i]) ELSE f[i - 1]
    <3>1. i = 0 \/ i \in 1..n
      BY <1>1
    <3> HIDE DEF n, step
    <3> QED  BY <1>3, <1>4, <3>1
  <2> HIDE DEF step, n
  <2> QED  BY <1>3, <2>1
<1>6. Drawing(c, ids) = CHOOSE g : Eq(g)
  BY DEF Drawing
<1>7. Eq(Drawing(c, ids))
  <2> HIDE DEF Eq
  <2> QED  BY <1>5, <1>6
<1> DEFINE d == Drawing(c, ids)
<1>8. d = [i \in 0..n |-> IF i = 0 THEN Blank
                           ELSE IF i \in ids THEN AddRow(d[i - 1], rows[c][i]) ELSE d[i - 1]]
  BY <1>7
<1> HIDE DEF d, n
<1>9. d[0] = Blank
  BY <1>1, <1>8
<1>10. \A i \in 1..n : d[i] = IF i \in ids THEN AddRow(d[i - 1], rows[c][i]) ELSE d[i - 1]
  BY <1>1, <1>8
<1>11. \A i \in 0..n : d[i] \in Drawn
  <2> DEFINE G == {i \in 0..n : d[i] \in Drawn}
  <2>1. 0 \in G
    BY <1>1, <1>9, BlankIsDrawn
  <2>2. ASSUME NEW i \in 1..n, i - 1 \in G  PROVE i \in G
    <3>1. d[i - 1] \in Drawn /\ rows[c][i] \in SnapshotRow /\ i \in 0..n
      BY <1>1, <2>2
    <3>2. d[i] \in Drawn
      BY <1>10, <3>1, AddRowIsDrawn
    <3> QED  BY <3>1, <3>2
  <2>3. \A i \in 0..n : i \in G
    <3> HIDE DEF G
    <3> QED  BY <1>1, <2>1, <2>2, AllUpTo
  <2> QED  BY <2>3
<1>12. DOMAIN d = 0..n
  BY <1>8
<1>13. d \in [0..n -> Drawn]
  BY <1>8, <1>11, <1>12
<1> QED  BY <1>9, <1>10, <1>13 DEF d, n

\* One row and one window: what is drawn grows by the point the row adds, if any.
LEMMA AddRowOf ==
  ASSUME NEW acc \in Drawn, NEW row \in SnapshotRow, NEW l \in Label
  PROVE  LET says == l \in DOMAIN Windows[row.quota]
             used == Windows[row.quota][l]
             next == AddRow(acc, row)
         IN  /\ next.last[l] = IF says THEN used ELSE acc.last[l]
             /\ next.points[l] =
                  IF says /\ used # acc.last[l]
                  THEN Append(acc.points[l],
                              [at |-> row.observed, usedPercent |-> used,
                               reset |-> acc.last[l] # None /\ used < acc.last[l]])
                  ELSE acc.points[l]
  BY DEF AddRow, Changes, Point

-----------------------------------------------------------------------------
(* The points are the changes. *)

\* After each row the points are the changes so far, and what is kept of a window
\* is what was said of it last.
LEMMA PointsAreTheChanges == TypeOK => PointsAreChanges
<1> SUFFICES ASSUME TypeOK, NEW c \in Credential,
                    NEW ids \in {HistoryIds(c, range) : range \in Ranges}, NEW l \in Label
             PROVE  LET used(i)   == Windows[rows[c][i].quota][l]
                        said      == {i \in ids : l \in DOMAIN Windows[rows[c][i].quota]}
                        before(i) == {j \in said : j < i}
                        changes   == {i \in said : before(i) = {} \/ used(Max(before(i))) # used(i)}
                        drawn     == Points(c, ids)[l]
                    IN  /\ Len(drawn) = Cardinality(changes)
                        /\ \A i \in changes :
                             drawn[Cardinality({j \in changes : j <= i})] =
                               [at |-> rows[c][i].observed, usedPercent |-> used(i),
                                reset |-> before(i) # {} /\ used(i) < used(Max(before(i)))]
  BY DEF PointsAreChanges
<1> DEFINE n         == Len(rows[c])
           d         == Drawing(c, ids)
           used(i)   == Windows[rows[c][i].quota][l]
           said      == {i \in ids : l \in DOMAIN Windows[rows[c][i].quota]}
           before(i) == {j \in said : j < i}
           changes   == {i \in said : before(i) = {} \/ used(Max(before(i))) # used(i)}
           upTo(i)   == {j \in changes : j <= i}
           point(i)  == [at |-> rows[c][i].observed, usedPercent |-> used(i),
                         reset |-> before(i) # {} /\ used(i) < used(Max(before(i)))]
           previous(i) == IF before(i) = {} THEN None ELSE used(Max(before(i)))
           Done(i)   == /\ d[i].last[l] = previous(i + 1)
                        /\ Len(d[i].points[l]) = Cardinality(upTo(i))
                        /\ \A j \in upTo(i) : d[i].points[l][Cardinality(upTo(j))] = point(j)
<1>1. n \in Nat /\ \A i \in 1..n : rows[c][i] \in SnapshotRow
  BY RowsOf
<1>2. ids \subseteq 1..n
  BY RowsOf DEF HistoryIds
<1>3. /\ d \in [0..n -> Drawn] /\ d[0] = Blank
      /\ \A i \in 1..n : d[i] = IF i \in ids THEN AddRow(d[i - 1], rows[c][i]) ELSE d[i - 1]
  BY DrawingIs
<1>4. /\ n \in Nat /\ said \subseteq 1..n /\ changes \subseteq said
      /\ \A i \in said : i \in Int /\ 1 <= i /\ i <= n
      /\ \A i \in changes : i \in said /\ i \in Int /\ 1 <= i /\ i <= n
  <2>1. n \in Nat /\ said \subseteq 1..n /\ changes \subseteq said
    BY <1>1, <1>2
  <2> HIDE DEF n, said, changes
  <2> QED  BY <2>1
<1>5. \A i \in said : used(i) \in Percent /\ used(i) # None
  <2> SUFFICES ASSUME NEW i \in said  PROVE used(i) \in Percent /\ used(i) # None
    OBVIOUS
  <2>1. rows[c][i].quota \in Quota /\ l \in DOMAIN Windows[rows[c][i].quota]
    BY <1>1, <1>4 DEF SnapshotRow
  <2> QED  BY <2>1, WindowsAre
<1> HIDE DEF n, d
<1>6. \A i \in said : previous(i) # used(i) <=> i \in changes
  <2> SUFFICES ASSUME NEW i \in said  PROVE previous(i) # used(i) <=> i \in changes
    OBVIOUS
  <2> HIDE DEF used, before, said
  <2> QED  BY <1>5
<1>14. \A i \in 1..n : i \in said <=> i \in ids /\ l \in DOMAIN Windows[rows[c][i].quota]
  OBVIOUS
<1> HIDE DEF changes, said
<1>7. \A i \in 0..n : IsFiniteSet(upTo(i)) /\ Cardinality(upTo(i)) \in Nat
  <2> SUFFICES ASSUME NEW i \in 0..n  PROVE IsFiniteSet(upTo(i)) /\ Cardinality(upTo(i)) \in Nat
    OBVIOUS
  <2>1. upTo(i) \in SUBSET (1..n) /\ n \in Int
    <3>1. \A j \in changes : j \in 1..n
      BY <1>4
    <3>2. upTo(i) \subseteq changes /\ n \in Int
      BY <1>4
    <3> HIDE DEF upTo
    <3> QED  BY <3>1, <3>2
  <2>2. IsFiniteSet(1..n)
    BY <2>1, FS_Interval
  <2> HIDE DEF upTo
  <2>3. IsFiniteSet(upTo(i))
    BY <2>1, <2>2, FS_Subset
  <2> QED  BY <2>3, FS_CardinalityType
<1>8. \A i \in 0..n : \A j \in upTo(i) : Cardinality(upTo(j)) \in 1..Cardinality(upTo(i))
  <2> SUFFICES ASSUME NEW i \in 0..n, NEW j \in upTo(i)
               PROVE  Cardinality(upTo(j)) \in 1..Cardinality(upTo(i))
    OBVIOUS
  <2>1. j \in 0..n /\ j \in upTo(j) /\ upTo(j) \in SUBSET upTo(i)
    <3>1. j \in changes /\ j \in Int /\ 1 <= j /\ j <= n /\ j <= i /\ i \in Int
      BY <1>4
    <3>2. \A k \in changes : k <= j => k <= i
      BY <1>4, <3>1
    <3>3. j <= j /\ j \in 0..n
      BY <1>4, <3>1
    <3> QED  BY <3>1, <3>2, <3>3
  <2> HIDE DEF upTo
  <2>2. Cardinality(upTo(j)) # 0
    BY <1>7, <2>1, FS_EmptySet
  <2>3. Cardinality(upTo(j)) <= Cardinality(upTo(i))
    BY <1>7, <2>1, FS_Subset
  <2> QED  BY <1>7, <2>1, <2>2, <2>3
<1>9. Done(0)
  <2>1. before(1) = {} /\ upTo(0) = {}
    <3>1. \A j \in said : ~(j < 1)
      BY <1>4
    <3>2. \A j \in changes : ~(j <= 0)
      BY <1>4
    <3> QED  BY <3>1, <3>2
  <2>2. Cardinality({}) = 0
    BY FS_EmptySet
  <2>3. d[0].last[l] = None /\ d[0].points[l] = <<>>
    BY <1>3 DEF Blank
  <2>4. previous(0 + 1) = None
    BY <2>1
  <2> HIDE DEF upTo, before, previous
  <2> QED  BY <2>1, <2>2, <2>3, <2>4
<1>10. ASSUME NEW i \in 1..n, Done(i - 1)
       PROVE  Done(i)
  <2>1. /\ i - 1 \in 0..n /\ i \in 0..n /\ (i - 1) + 1 = i
        /\ d[i - 1] \in Drawn /\ rows[c][i] \in SnapshotRow
    BY <1>1, <1>3
  <2>2. d[i - 1].points[l] \in Seq(PointRecord)
    BY <2>1 DEF Drawn
  <2>3. CASE i \notin said
    <3>1. d[i].last[l] = d[i - 1].last[l] /\ d[i].points[l] = d[i - 1].points[l]
      <4>1. CASE i \notin ids
        BY <1>3, <4>1
      <4>2. CASE i \in ids
        <5>1. d[i] = AddRow(d[i - 1], rows[c][i]) /\ l \notin DOMAIN Windows[rows[c][i].quota]
          BY <1>3, <1>14, <2>3, <4>2
        <5>2. /\ AddRow(d[i - 1], rows[c][i]).last[l] = d[i - 1].last[l]
              /\ AddRow(d[i - 1], rows[c][i]).points[l] = d[i - 1].points[l]
          BY <2>1, <5>1, AddRowOf
        <5> QED  BY <5>1, <5>2
      <4> QED  BY <4>1, <4>2
    <3>2. before(i + 1) = before(i) /\ upTo(i) = upTo(i - 1)
      <4>1. \A j \in said : j < i + 1 <=> j < i
        BY <1>4, <2>3
      <4>2. \A j \in changes : j <= i <=> j <= i - 1
        BY <1>4, <2>3
      <4> QED  BY <4>1, <4>2
    <3> HIDE DEF before, upTo, point
    <3> QED  BY <1>10, <2>1, <3>1, <3>2
  <2>4. CASE i \in said
    <3>1. /\ d[i].last[l] = used(i)
          /\ d[i].points[l] = IF used(i) # previous(i)
                              THEN Append(d[i - 1].points[l],
                                          [at |-> rows[c][i].observed, usedPercent |-> used(i),
                                           reset |-> previous(i) # None /\ used(i) < previous(i)])
                              ELSE d[i - 1].points[l]
      <4>1. i \in ids /\ l \in DOMAIN Windows[rows[c][i].quota] /\ d[i - 1].last[l] = previous(i)
        BY <1>10, <1>14, <2>1, <2>4
      <4> HIDE DEF before, upTo, previous
      <4> QED  BY <1>3, <2>1, <4>1, AddRowOf
    <3>2. previous(i + 1) = used(i)
      <4>1. i \in before(i + 1) /\ \A j \in before(i + 1) : i >= j
        BY <1>4, <2>4
      <4>2. before(i + 1) \in SUBSET Int
        BY <1>4
      <4>3. Max(before(i + 1)) = i
        <5> HIDE DEF before
        <5> QED  BY <4>1, <4>2, MaxIs
      <4> QED  BY <4>1, <4>3
    <3>3. CASE i \notin changes
      <4>1. used(i) = previous(i)
        BY <1>6, <2>4, <3>3
      <4>2. upTo(i) = upTo(i - 1)
        <5>1. \A j \in changes : j <= i <=> j <= i - 1
          BY <1>4, <3>3
        <5> QED  BY <5>1
      <4> HIDE DEF before, upTo, point, used, previous
      <4> QED  BY <1>10, <3>1, <3>2, <4>1, <4>2
    <3>4. CASE i \in changes
      <4>1. used(i) # previous(i)
        BY <1>6, <2>4, <3>4
      <4>2. upTo(i) = upTo(i - 1) \union {i} /\ i \notin upTo(i - 1)
        <5>1. \A j \in changes : j <= i <=> j <= i - 1 \/ j = i
          BY <1>4
        <5>2. i <= i /\ ~(i <= i - 1)
          BY <1>4
        <5> QED  BY <3>4, <5>1, <5>2
      <4>3. Cardinality(upTo(i)) = Cardinality(upTo(i - 1)) + 1
        <5> HIDE DEF upTo
        <5> QED  BY <1>7, <2>1, <4>2, FS_AddElement
      <4>4. point(i) = [at |-> rows[c][i].observed, usedPercent |-> used(i),
                        reset |-> previous(i) # None /\ used(i) < previous(i)]
        <5>1. before(i) # {} => Max(before(i)) \in said
          <6>1. before(i) \in SUBSET (1..n) /\ before(i) \subseteq said
            BY <1>4
          <6> HIDE DEF before
          <6> QED  BY <1>1, <6>1, MaxExists
        <5> HIDE DEF before, used
        <5> QED  BY <1>5, <5>1
      <4>5. d[i].points[l] = Append(d[i - 1].points[l], point(i))
        BY <3>1, <4>1, <4>4
      <4> HIDE DEF before, upTo, point, used, previous
      <4>6. Len(d[i - 1].points[l]) = Cardinality(upTo(i - 1))
        BY <1>10
      <4>7. /\ Len(d[i].points[l]) = Cardinality(upTo(i))
            /\ d[i].points[l][Cardinality(upTo(i))] = point(i)
            /\ \A k \in 1..Cardinality(upTo(i - 1)) : d[i].points[l][k] = d[i - 1].points[l][k]
        BY <2>2, <4>3, <4>5, <4>6
      <4>8. \A j \in upTo(i - 1) : d[i].points[l][Cardinality(upTo(j))] = point(j)
        BY <1>8, <1>10, <2>1, <4>7
      <4>9. \A j \in upTo(i) : d[i].points[l][Cardinality(upTo(j))] = point(j)
        BY <4>2, <4>7, <4>8
      <4> QED  BY <3>1, <3>2, <4>7, <4>9
    <3> QED  BY <3>3, <3>4
  <2> QED  BY <2>3, <2>4
<1>11. Done(n)
  <2> DEFINE G == {i \in 0..n : Done(i)}
  <2> HIDE DEF Done
  <2>1. 0 \in G /\ \A i \in 1..n : i - 1 \in G => i \in G
    BY <1>1, <1>9, <1>10
  <2>2. n \in 0..n
    BY <1>1
  <2>3. n \in G
    <3> HIDE DEF G
    <3> QED  BY <1>1, <2>1, <2>2, AllUpTo
  <2> QED  BY <2>3
<1>12. upTo(n) = changes
  BY <1>4
<1>13. Points(c, ids)[l] = d[n].points[l]
  BY DEF Points, d, n
<1> QED  BY <1>11, <1>12, <1>13 DEF changes, said

-----------------------------------------------------------------------------
(* The runway. *)

\* A point that is no reset is no lower than the one before.
Rises(points) ==
  \A k \in 2..Len(points) :
    points[k].reset \/ points[k - 1].usedPercent <= points[k].usedPercent

\* What is drawn of a window rises, and its moments are those of stored rows.
LEMMA WindowRises ==
  ASSUME TypeOK, NEW c \in Credential, NEW l \in Label
  PROVE  /\ WindowPoints(c, l) \in Seq(PointRecord) /\ Rises(WindowPoints(c, l))
         /\ \A k \in 1..Len(WindowPoints(c, l)) :
              \E i \in 1..Len(rows[c]) : WindowPoints(c, l)[k].at = rows[c][i].observed
<1> DEFINE n   == Len(rows[c])
           ids == DOMAIN rows[c]
           d   == Drawing(c, ids)
           p(i) == d[i].points[l]
           Done(i) == /\ d[i].last[l] = IF p(i) = <<>> THEN None ELSE p(i)[Len(p(i))].usedPercent
                      /\ Rises(p(i))
                      /\ \A k \in 1..Len(p(i)) : \E j \in 1..n : p(i)[k].at = rows[c][j].observed
<1>1. n \in Nat /\ ids = 1..n /\ \A i \in 1..n : rows[c][i] \in SnapshotRow
  BY RowsOf
<1>2. /\ d \in [0..n -> Drawn] /\ d[0] = Blank
      /\ \A i \in 1..n : d[i] = AddRow(d[i - 1], rows[c][i])
  BY <1>1, DrawingIs
<1> HIDE DEF n, ids, d
<1>3. \A i \in 0..n : d[i].points[l] \in Seq(PointRecord) /\ d[i].last[l] \in {None} \union Percent
  BY <1>2 DEF Drawn
<1>4. Done(0)
  <2>1. d[0].points[l] = <<>> /\ d[0].last[l] = None
    BY <1>2 DEF Blank
  <2> QED  BY <2>1 DEF Rises
<1>5. ASSUME NEW i \in 1..n, Done(i - 1)
      PROVE  Done(i)
  <2> DEFINE q    == d[i - 1].points[l]
             m    == Len(q)
             prev == d[i - 1].last[l]
             used == Windows[rows[c][i].quota][l]
             new  == [at |-> rows[c][i].observed, usedPercent |-> used,
                      reset |-> prev # None /\ used < prev]
             says == l \in DOMAIN Windows[rows[c][i].quota]
  <2>1. i - 1 \in 0..n /\ i \in 0..n /\ d[i - 1] \in Drawn /\ rows[c][i] \in SnapshotRow
    BY <1>1, <1>2
  <2>2. /\ d[i].last[l] = IF says THEN used ELSE prev
        /\ d[i].points[l] = IF says /\ used # prev THEN Append(q, new) ELSE q
    BY <1>2, <2>1, AddRowOf
  <2>3. /\ q \in Seq(PointRecord) /\ m \in Nat /\ prev \in {None} \union Percent
        /\ says => (used \in Percent /\ used # None)
    <3>1. says => used \in Percent /\ used # None
      BY <2>1, WindowsAre DEF SnapshotRow
    <3> QED  BY <1>3, <2>1, <3>1
  <2>4. prev = IF q = <<>> THEN None ELSE q[m].usedPercent
    BY <1>5
  <2>5. Rises(q) /\ \A k \in 1..m : \E j \in 1..n : q[k].at = rows[c][j].observed
    BY <1>5
  <2> HIDE DEF q, used, says, prev
  <2>6. CASE ~(says /\ used # prev)
    <3>1. d[i].points[l] = q /\ d[i].last[l] = prev
      BY <2>2, <2>6
    <3> QED  BY <2>4, <2>5, <3>1
  <2>7. CASE says /\ used # prev
    <3>1. d[i].points[l] = Append(q, new) /\ d[i].last[l] = used
      BY <2>2, <2>7
    <3>2. /\ Len(Append(q, new)) = m + 1 /\ Append(q, new)[m + 1] = new
          /\ \A k \in 1..m : Append(q, new)[k] = q[k]
          /\ Append(q, new) # <<>>
      <4>1. rows[c][i].observed \in Moment /\ used \in Percent
        <5>1. rows[c][i].observed \in Moment
          BY <2>1 DEF SnapshotRow
        <5> QED  BY <2>3, <2>7, <5>1
      <4>2. new \in PointRecord
        BY <4>1 DEF PointRecord
      <4> HIDE DEF new
      <4>3. /\ Len(Append(q, new)) = Len(q) + 1 /\ Append(q, new)[Len(q) + 1] = new
            /\ \A k \in 1..Len(q) : Append(q, new)[k] = q[k]
            /\ Append(q, new) \in Seq(PointRecord)
        BY <2>3, <4>2, AppendProperties
      <4> QED  BY <2>3, <4>3
    <3>5. m \in Nat /\ m = Len(q)
      BY <2>3
    <3>6. new.usedPercent = used /\ (new.reset <=> prev # None /\ used < prev)
          /\ new.at = rows[c][i].observed
      OBVIOUS
    <3> HIDE DEF m, new
    <3>3. Rises(Append(q, new))
      <4> SUFFICES ASSUME NEW k \in 2..(m + 1)
                   PROVE  \/ Append(q, new)[k].reset
                          \/ Append(q, new)[k - 1].usedPercent <= Append(q, new)[k].usedPercent
        BY <3>2 DEF Rises
      <4>1. CASE k \in 2..m
        <5>1. k \in 1..m /\ k - 1 \in 1..m
          BY <3>5, <4>1
        <5>2. q[k].reset \/ q[k - 1].usedPercent <= q[k].usedPercent
          BY <2>5, <4>1 DEF Rises, m
        <5> QED  BY <3>2, <5>1, <5>2
      <4>2. CASE k = m + 1
        <5>1. m \in 1..m /\ k - 1 = m /\ q # <<>>
          <6>1. m # 0
            BY <3>5, <4>2
          <6> QED  BY <2>3, <3>5, <4>2, <6>1
        <5>2. q[m].usedPercent = prev /\ prev \in Percent
          <6>1. q[m] \in PointRecord
            <7>1. \A j \in 1..Len(q) : q[j] \in PointRecord
              BY <2>3
            <7> QED  BY <3>5, <5>1, <7>1
          <6> QED  BY <2>4, <5>1, <6>1 DEF PointRecord
        <5>3. new.reset \/ prev <= new.usedPercent
          <6>1. prev # None /\ prev \in Int /\ used \in Int
            <7>1. used \in Percent /\ prev \in Percent
              BY <2>3, <2>7, <5>2
            <7> QED  BY <7>1 DEF Percent, None
          <6> QED  BY <3>6, <6>1
        <5> QED  BY <3>2, <4>2, <5>1, <5>2, <5>3
      <4> QED  BY <3>5, <4>1, <4>2
    <3>4. \A k \in 1..(m + 1) : \E j \in 1..n : Append(q, new)[k].at = rows[c][j].observed
      <4> SUFFICES ASSUME NEW k \in 1..(m + 1)
                   PROVE  \E j \in 1..n : Append(q, new)[k].at = rows[c][j].observed
        OBVIOUS
      <4>1. CASE k \in 1..m
        BY <2>5, <3>2, <4>1 DEF m
      <4>2. CASE k = m + 1
        BY <3>2, <3>6, <4>2
      <4> QED  BY <3>5, <4>1, <4>2
    <3>7. Append(q, new)[Len(Append(q, new))].usedPercent = used
      BY <3>2, <3>6
    <3> QED  BY <3>1, <3>2, <3>3, <3>4, <3>7
  <2> QED  BY <2>6, <2>7
<1>6. Done(n)
  <2> DEFINE G == {i \in 0..n : Done(i)}
  <2> HIDE DEF Done
  <2>1. 0 \in G /\ \A i \in 1..n : i - 1 \in G => i \in G
    BY <1>1, <1>4, <1>5
  <2>2. n \in 0..n
    BY <1>1
  <2>3. n \in G
    <3> HIDE DEF G
    <3> QED  BY <1>1, <2>1, <2>2, AllUpTo
  <2> QED  BY <2>3
<1>7. WindowPoints(c, l) = d[n].points[l]
  BY DEF WindowPoints, Points, d, n, ids
<1>8. n \in 0..n
  BY <1>1
<1> QED  BY <1>3, <1>6, <1>7, <1>8 DEF n

LEMMA PointParts ==
  ASSUME NEW x \in PointRecord
  PROVE  x.usedPercent \in Percent /\ x.usedPercent \in Int /\ x.at \in Moment /\ x.at \in Int
  BY BoundAssumption DEF PointRecord, Percent, Moment

\* Since its last reset a window has only filled.
LEMMA SampleRises ==
  ASSUME NEW p \in Seq(PointRecord), Rises(p)
  PROVE  LET s == SinceReset(p)
         IN  /\ s \in Seq(PointRecord)
             /\ \A i \in 1..Len(s) : \E k \in 1..Len(p) : s[i] = p[k]
             /\ \A j \in 1..Len(s) : \A i \in 1..j : s[i].usedPercent <= s[j].usedPercent
<1> DEFINE s == SinceReset(p)
           n == Len(p)
           resets == {i \in DOMAIN p : p[i].reset}
<1>1. n \in Nat /\ DOMAIN p = 1..n /\ \A i \in 1..n : p[i] \in PointRecord
  OBVIOUS
<1> DEFINE SkipsTo(r) ==
             /\ r <= n /\ s \in Seq(PointRecord) /\ Len(s) = n - r
             /\ \A i \in 1..(n - r) : s[i] = p[r + i]
             /\ \A i \in (r + 2)..n : ~p[i].reset
<1>2. \E r \in Nat : SkipsTo(r)
  <2>1. CASE resets = {}
    <3>1. s = p
      BY <2>1 DEF SinceReset
    <3>2. \A i \in 1..n : ~p[i].reset
      BY <1>1, <2>1
    <3>3. 0 \in Nat /\ n - 0 = n /\ \A i \in 1..n : 0 + i = i
      BY <1>1
    <3>4. \A i \in (0 + 2)..n : i \in 1..n
      BY <1>1
    <3> HIDE DEF n, s
    <3>5. SkipsTo(0)
      BY <1>1, <3>1, <3>2, <3>3, <3>4 DEF n
    <3> QED  BY <3>3, <3>5
  <2>2. CASE resets # {}
    <3>1. resets \in SUBSET (1..n)
      BY <1>1
    <3>2. Max(resets) \in resets /\ \A j \in resets : Max(resets) >= j
      <4> HIDE DEF resets, n
      <4> QED  BY <1>1, <2>2, <3>1, MaxExists
    <3> DEFINE m == Max(resets)
    <3>3. s = SubSeq(p, m, n)
      BY <2>2 DEF SinceReset
    <3>4. m \in 1..n
      BY <3>1, <3>2
    <3>5. \A i \in (m + 1)..n : ~p[i].reset
      <4> SUFFICES ASSUME NEW i \in (m + 1)..n  PROVE ~p[i].reset
        OBVIOUS
      <4> HIDE DEF m
      <4>1. i \in 1..n /\ ~(m >= i)
        BY <1>1, <3>4
      <4>2. i \notin resets
        BY <3>2, <4>1 DEF m
      <4> QED  BY <1>1, <4>1, <4>2
    <3> HIDE DEF m, s
    <3>6. /\ s \in Seq(PointRecord) /\ Len(s) = n - m + 1
          /\ \A i \in 1..(n - m + 1) : s[i] = p[m + i - 1]
      BY <1>1, <3>3, <3>4, SubSeqProperties
    <3>7. m - 1 \in Nat /\ m - 1 <= n /\ n - (m - 1) = n - m + 1 /\ (m - 1) + 2 = m + 1
      BY <1>1, <3>4
    <3>8. \A i \in 1..(n - m + 1) : (m - 1) + i = m + i - 1
      BY <1>1, <3>4
    <3>9. SkipsTo(m - 1)
      <4>1. \A i \in 1..(n - (m - 1)) : s[i] = p[(m - 1) + i]
        BY <3>6, <3>7, <3>8
      <4>2. \A i \in ((m - 1) + 2)..n : ~p[i].reset
        BY <3>5, <3>7
      <4> QED  BY <3>6, <3>7, <4>1, <4>2
    <3> QED  BY <3>7, <3>9
  <2> QED  BY <2>1, <2>2
<1> HIDE DEF s, n, resets
<1>3. PICK r \in Nat : SkipsTo(r)
  BY <1>2
<1> DEFINE k == n - r
           used == [i \in 1..k |-> s[i].usedPercent]
<1>4. /\ k \in Nat /\ Len(s) = k /\ used \in [1..k -> Percent]
      /\ \A i \in 1..k : used[i] \in Int /\ r + i \in 1..n
  <2>1. k \in Nat /\ Len(s) = k
    BY <1>1, <1>3
  <2>2. \A i \in 1..k : s[i] \in PointRecord
    BY <1>3, <2>1
  <2>3. \A i \in 1..k : r + i \in 1..n
    BY <1>1, <1>3
  <2>4. \A i \in 1..k : s[i].usedPercent \in Percent /\ s[i].usedPercent \in Int
    BY <2>2, PointParts
  <2> HIDE DEF k
  <2> QED  BY <2>1, <2>3, <2>4
<1>5. \A i \in 2..k : used[i - 1] <= used[i]
  <2> SUFFICES ASSUME NEW i \in 2..k  PROVE used[i - 1] <= used[i]
    OBVIOUS
  <2>1. /\ i \in 1..k /\ i - 1 \in 1..k /\ r + i \in (r + 2)..n /\ r + i \in 2..n
        /\ r + (i - 1) = (r + i) - 1
    BY <1>1, <1>3, <1>4
  <2>2. p[(r + i) - 1].usedPercent <= p[r + i].usedPercent
    BY <1>3, <2>1 DEF Rises, n
  <2>3. s[i] = p[r + i] /\ s[i - 1] = p[r + (i - 1)]
    BY <1>3, <2>1
  <2> QED  BY <2>1, <2>2, <2>3
<1> DEFINE G == {j \in 0..k : \A i \in 1..j : used[i] <= used[j]}
<1> HIDE DEF used, k, G
<1>6. 0 \in G
  BY <1>4 DEF G
<1>7. ASSUME NEW j \in 1..k, j - 1 \in G
      PROVE  j \in G
  <2> SUFFICES ASSUME NEW i \in 1..j  PROVE used[i] <= used[j]
    BY <1>4 DEF G
  <2>1. CASE i = j
    <3>1. used[j] \in Int
      BY <1>4
    <3> QED  BY <2>1, <3>1
  <2>2. CASE i # j
    <3>1. j \in 2..k /\ i \in 1..(j - 1) /\ i \in 1..k /\ j - 1 \in 1..k /\ j \in 1..k
      BY <1>4, <2>2
    <3>2. used[i] <= used[j - 1] /\ used[j - 1] <= used[j]
      BY <1>5, <1>7, <3>1 DEF G
    <3>3. used[i] \in Int /\ used[j - 1] \in Int /\ used[j] \in Int
      BY <1>4, <3>1
    <3> QED  BY <3>2, <3>3
  <2> QED  BY <2>1, <2>2
<1>8. \A j \in 0..k : j \in G
  BY <1>4, <1>6, <1>7, AllUpTo
<1>9. \A j \in 1..k : j \in 0..k
  BY <1>4
<1>10. \A j \in 1..Len(s) : \A i \in 1..j : s[i].usedPercent <= s[j].usedPercent
  <2> SUFFICES ASSUME NEW j \in 1..k, NEW i \in 1..j
               PROVE  s[i].usedPercent <= s[j].usedPercent
    BY <1>4
  <2>1. used[i] <= used[j]
    BY <1>8, <1>9 DEF G
  <2>2. i \in 1..k
    BY <1>4
  <2> QED  BY <2>1, <2>2 DEF used
<1>11. \A i \in 1..Len(s) : \E m \in 1..Len(p) : s[i] = p[m]
  BY <1>3, <1>4 DEF n, k
<1> QED  BY <1>3, <1>10, <1>11 DEF s

\* As time passes a step function read off a rising sample rises.
LEMMA UsedAtGrows ==
  ASSUME NEW s \in Seq(PointRecord), Len(s) # 0,
         \A j \in 1..Len(s) : \A i \in 1..j : s[i].usedPercent <= s[j].usedPercent,
         NEW t \in Int, NEW u \in Int, s[1].at <= t, t <= u
  PROVE  UsedAt(s, t) \in Int /\ UsedAt(s, u) \in Int /\ UsedAt(s, t) <= UsedAt(s, u)
<1> DEFINE n == Len(s)
           before(v) == {i \in DOMAIN s : s[i].at <= v}
<1>1. n \in Nat /\ n # 0 /\ DOMAIN s = 1..n /\ 1 \in 1..n
  OBVIOUS
<1>2. \A i \in 1..n : s[i].at \in Int /\ s[i].usedPercent \in Int
  <2>1. \A i \in 1..n : s[i] \in PointRecord
    OBVIOUS
  <2> QED  BY <2>1, PointParts
<1>3. before(t) \in SUBSET (1..n) /\ before(u) \in SUBSET (1..n)
  BY <1>1
<1>4. 1 \in before(t) /\ 1 \in before(u)
  BY <1>1, <1>2
<1>5. before(t) \subseteq before(u)
  BY <1>1, <1>2
<1>6. /\ UsedAt(s, t) = s[Max(before(t))].usedPercent
      /\ UsedAt(s, u) = s[Max(before(u))].usedPercent
  <2>1. before(t) # {} /\ before(u) # {}
    BY <1>4
  <2> QED  BY <2>1 DEF UsedAt
<1> HIDE DEF before, n
<1>7. /\ Max(before(t)) \in before(t)
      /\ Max(before(u)) \in before(u) /\ \A j \in before(u) : Max(before(u)) >= j
  <2>1. before(t) # {} /\ before(u) # {}
    BY <1>4
  <2> QED  BY <1>1, <1>3, <2>1, MaxExists
<1> DEFINE a == Max(before(t))
           b == Max(before(u))
<1>8. a \in 1..n /\ b \in 1..n /\ b >= a
  BY <1>3, <1>5, <1>7
<1> HIDE DEF a, b
<1>9. a \in 1..b
  BY <1>1, <1>8
<1>10. s[a].usedPercent <= s[b].usedPercent
  BY <1>8, <1>9 DEF n
<1>11. s[a].usedPercent \in Int /\ s[b].usedPercent \in Int
  BY <1>2, <1>8
<1> QED  BY <1>6, <1>10, <1>11 DEF a, b

LEMMA LargerOf ==
  ASSUME NEW a \in Int, NEW b \in Int
  PROVE  Max({a, b}) = IF a >= b THEN a ELSE b
<1>1. {a, b} \in SUBSET Int
  OBVIOUS
<1>2. CASE a >= b
  <2>1. \A j \in {a, b} : a >= j
    BY <1>2
  <2> QED  BY <1>1, <1>2, <2>1, MaxIs
<1>3. CASE ~(a >= b)
  <2>1. \A j \in {a, b} : b >= j
    BY <1>3
  <2> QED  BY <1>1, <1>3, <2>1, MaxIs
<1> QED  BY <1>2, <1>3

\* What the integers say of products.
LEMMA ProductGrows ==
  ASSUME NEW a \in Int, NEW b \in Int, NEW c \in Int, a <= b, 0 <= c
  PROVE  a * c \in Int /\ b * c \in Int /\ a * c <= b * c
  OBVIOUS

LEMMA FactorPositive ==
  ASSUME NEW a \in Int, NEW b \in Int, 0 < b, 0 <= a * b
  PROVE  0 <= a
  OBVIOUS

\* What the sample is at a moment the points have all been observed by: it starts
\* later, has risen less and has taken longer as time passes.
LEMMA SampleSlows ==
  ASSUME NEW s \in Seq(PointRecord), Len(s) >= 2,
         \A j \in 1..Len(s) : \A i \in 1..j : s[i].usedPercent <= s[j].usedPercent,
         NEW t \in Int, NEW u \in Int, t < u, s[1].at < t
  PROVE  LET start(v) == Max({s[1].at, v - RateWindow})
             rise(v)  == s[Len(s)].usedPercent - UsedAt(s, start(v))
             span(v)  == SpanOf(s, start(v), v)
         IN  /\ rise(t) \in Int /\ rise(u) \in Int /\ rise(u) <= rise(t)
             /\ span(t) \in Int /\ span(u) \in Int /\ 0 < span(t) /\ span(t) <= span(u)
<1> DEFINE start(v) == Max({s[1].at, v - RateWindow})
           at == s[1].at
<1>1. s[1] \in PointRecord /\ s[Len(s)] \in PointRecord
  OBVIOUS
<1>2. at \in Int /\ s[Len(s)].usedPercent \in Int
  BY <1>1, PointParts
<1>3. RateWindow \in Int /\ 0 < RateWindow
  BY SpanAssumption
<1> HIDE DEF at
<1>4. t - RateWindow \in Int /\ u - RateWindow \in Int /\ t - RateWindow < u - RateWindow
  BY <1>3
<1>5. /\ start(t) = IF at >= t - RateWindow THEN at ELSE t - RateWindow
      /\ start(u) = IF at >= u - RateWindow THEN at ELSE u - RateWindow
  BY <1>2, <1>4, LargerOf DEF at
<1>6. at < t
  BY DEF at
<1> HIDE DEF start
<1>7. /\ start(t) \in Int /\ start(u) \in Int /\ at <= start(t) /\ start(t) <= start(u)
      /\ 0 < t - start(t) /\ t - start(t) <= u - start(u)
  BY <1>2, <1>3, <1>4, <1>5, <1>6
<1>8. /\ UsedAt(s, start(t)) \in Int /\ UsedAt(s, start(u)) \in Int
      /\ UsedAt(s, start(t)) <= UsedAt(s, start(u))
  <2>1. Len(s) # 0
    OBVIOUS
  <2> QED  BY <1>7, <2>1, UsedAtGrows DEF at
<1>9. /\ SpanOf(s, start(t), t) = t - start(t)
      /\ SpanOf(s, start(u), u) = u - start(u)
  BY DEF SpanOf
<1>10. /\ s[Len(s)].usedPercent - UsedAt(s, start(t)) \in Int
       /\ s[Len(s)].usedPercent - UsedAt(s, start(u)) \in Int
       /\ s[Len(s)].usedPercent - UsedAt(s, start(u)) <= s[Len(s)].usedPercent - UsedAt(s, start(t))
  BY <1>2, <1>8
<1>11. /\ SpanOf(s, start(t), t) \in Int /\ SpanOf(s, start(u), u) \in Int
       /\ 0 < SpanOf(s, start(t), t) /\ SpanOf(s, start(t), t) <= SpanOf(s, start(u), u)
  BY <1>7, <1>9
<1> QED  BY <1>10, <1>11 DEF start

\* estimateRunway, of points that rise, at two moments when all were observed.
LEMMA EstimateSlows ==
  ASSUME NEW p \in Seq(PointRecord), Rises(p), NEW t \in Int, NEW u \in Int, t < u,
         \A k \in 1..Len(p) : p[k].at <= t
  PROVE  LET e == Estimate(p, t)
             f == Estimate(p, u)
         IN  /\ f # NoEstimate => e # NoEstimate
             /\ Slower(f, e)
             /\ \A resetsAt \in Int : RunsOut(f, u, resetsAt) => RunsOut(e, t, resetsAt)
<1> DEFINE s == SinceReset(p)
           e == Estimate(p, t)
           f == Estimate(p, u)
           enough == Len(s) >= 2 /\ s[Len(s)].at - s[1].at >= MinSpan
           start(v) == Max({s[1].at, v - RateWindow})
           rise(v)  == s[Len(s)].usedPercent - UsedAt(s, start(v))
           span(v)  == SpanOf(s, start(v), v)
           left     == 100 - s[Len(s)].usedPercent
           low      == s[Len(s)].at - s[1].at < 3 * MinSpan \/ Len(s) < 4
           Seen(v)  == [rise |-> rise(v), span |-> span(v), left |-> left, low |-> low]
<1> DEFINE Goal == /\ f # NoEstimate => e # NoEstimate
                   /\ Slower(f, e)
                   /\ \A resetsAt \in Int : RunsOut(f, u, resetsAt) => RunsOut(e, t, resetsAt)
<1>1. /\ s \in Seq(PointRecord)
      /\ \A i \in 1..Len(s) : \E k \in 1..Len(p) : s[i] = p[k]
      /\ \A j \in 1..Len(s) : \A i \in 1..j : s[i].usedPercent <= s[j].usedPercent
  BY SampleRises
<1>2. Len(s) \in Nat /\ MinSpan \in Nat /\ MinSpan # 0
  BY <1>1, SpanAssumption
<1>3. ASSUME ~enough  PROVE Goal
  <2>1. e = NoEstimate /\ f = NoEstimate
    <3>1. Len(s) < 2 \/ s[Len(s)].at - s[1].at < MinSpan
      <4>1. CASE Len(s) >= 2
        <5>1. s[Len(s)] \in PointRecord /\ s[1] \in PointRecord
          BY <1>1, <4>1
        <5>2. s[Len(s)].at \in Int /\ s[1].at \in Int
          BY <5>1, PointParts
        <5> HIDE DEF s
        <5> QED  BY <1>2, <1>3, <4>1, <5>2
      <4>2. CASE ~(Len(s) >= 2)
        <5> HIDE DEF s
        <5> QED  BY <1>2, <4>2
      <4> QED  BY <4>1, <4>2
    <3> QED  BY <3>1 DEF Estimate
  <2> HIDE DEF e, f
  <2> QED  BY <2>1 DEF Slower, RunsOut, NoEstimate
<1>4. ASSUME enough  PROVE Goal
  <2>1. s[1] \in PointRecord /\ s[Len(s)] \in PointRecord
    BY <1>1, <1>4
  <2>2. /\ s[1].at \in Int /\ s[Len(s)].at \in Int /\ s[Len(s)].usedPercent \in Percent
    BY <2>1, PointParts
  <2>3. s[Len(s)].at <= t
    <3>1. Len(s) \in 1..Len(s)
      BY <1>2, <1>4
    <3> HIDE DEF s
    <3> QED  BY <1>1, <3>1
  <2>4. s[1].at < t
    <3> HIDE DEF s
    <3> QED  BY <1>2, <1>4, <2>2, <2>3
  <2>5. /\ rise(t) \in Int /\ rise(u) \in Int /\ rise(u) <= rise(t)
        /\ span(t) \in Int /\ span(u) \in Int /\ 0 < span(t) /\ span(t) <= span(u)
    <3> HIDE DEF s
    <3> QED  BY <1>1, <1>4, <2>4, SampleSlows
  <2>6. left \in Int /\ 0 <= left
    <3>1. \A x \in Percent : 100 - x \in Int /\ 0 <= 100 - x
      BY DEF Percent
    <3> HIDE DEF s
    <3> QED  BY <2>2, <3>1
  <2>7. ~(Len(s) < 2) /\ ~(s[Len(s)].at - s[1].at < MinSpan) /\ ~(t <= s[1].at) /\ ~(u <= s[1].at)
    <3> HIDE DEF s
    <3> QED  BY <1>2, <1>4, <2>2, <2>4
  <2>8. /\ e = IF rise(t) <= 0 THEN NoEstimate ELSE Seen(t)
        /\ f = IF rise(u) <= 0 THEN NoEstimate ELSE Seen(u)
    BY <2>7 DEF Estimate
  <2>9. /\ Seen(t).rise = rise(t) /\ Seen(t).span = span(t) /\ Seen(t).left = left
        /\ Seen(u).rise = rise(u) /\ Seen(u).span = span(u) /\ Seen(u).left = left
        /\ NoEstimate.rise = 0 /\ NoEstimate.span = 1
    BY DEF NoEstimate
  <2> HIDE DEF e, f, rise, span, left, low, Seen
  <2>10. ASSUME rise(u) <= 0  PROVE Goal
    <3>1. f = NoEstimate
      BY <2>8, <2>10
    <3>2. e.rise \in Int /\ 0 <= e.rise /\ e.span \in Int
      BY <2>5, <2>8, <2>9
    <3> QED  BY <2>9, <3>1, <3>2 DEF Slower, RunsOut
  <2>11. ASSUME ~(rise(u) <= 0)  PROVE Goal
    <3>1. 0 < rise(u) /\ 0 < rise(t) /\ e = Seen(t) /\ f = Seen(u)
      BY <2>5, <2>8, <2>11
    <3>2. e # NoEstimate
      BY <2>5, <2>9, <3>1
    <3>3. Slower(f, e)
      <4>1. rise(u) * span(t) <= rise(t) * span(t) /\ rise(u) * span(t) \in Int
        BY <2>5, ProductGrows
      <4>2. span(t) * rise(t) <= span(u) * rise(t) /\ span(t) * rise(t) \in Int
            /\ span(u) * rise(t) \in Int
        BY <2>5, <3>1, ProductGrows
      <4>3. span(t) * rise(t) = rise(t) * span(t) /\ span(u) * rise(t) = rise(t) * span(u)
        BY <2>5
      <4>4. rise(u) * span(t) <= rise(t) * span(u)
        BY <4>1, <4>2, <4>3
      <4> QED  BY <2>9, <3>1, <4>4 DEF Slower
    <3>4. ASSUME NEW resetsAt \in Int, RunsOut(f, u, resetsAt)
          PROVE  RunsOut(e, t, resetsAt)
      <4> DEFINE ahead(v) == resetsAt - v
      <4>1. ahead(t) \in Int /\ ahead(u) \in Int /\ ahead(u) <= ahead(t)
        OBVIOUS
      <4>2. left * span(u) <= ahead(u) * rise(u)
        BY <2>9, <3>1, <3>4 DEF RunsOut
      <4> HIDE DEF ahead
      <4>3. /\ span(t) * left <= span(u) * left
            /\ span(t) * left \in Int /\ span(u) * left \in Int
        BY <2>5, <2>6, ProductGrows
      <4>4. span(t) * left = left * span(t) /\ span(u) * left = left * span(u)
        BY <2>5, <2>6
      <4>5. 0 * left <= span(t) * left
        BY <2>5, <2>6, ProductGrows
      <4>6. 0 * left = 0
        BY <2>6
      <4>7. ahead(u) * rise(u) \in Int /\ 0 <= ahead(u) * rise(u)
        BY <2>5, <4>1, <4>2, <4>3, <4>4, <4>5, <4>6
      <4>8. 0 <= ahead(u) /\ 0 <= ahead(t)
        BY <2>5, <3>1, <4>1, <4>7, FactorPositive
      <4>9. rise(u) * ahead(u) <= rise(t) * ahead(u) /\ rise(u) * ahead(u) \in Int
            /\ rise(t) * ahead(u) \in Int
        BY <2>5, <4>1, <4>8, ProductGrows
      <4>10. ahead(u) * rise(t) <= ahead(t) * rise(t) /\ ahead(t) * rise(t) \in Int
        BY <2>5, <3>1, <4>1, ProductGrows
      <4>11. rise(u) * ahead(u) = ahead(u) * rise(u) /\ rise(t) * ahead(u) = ahead(u) * rise(t)
        BY <2>5, <4>1
      <4>12. left * span(t) <= ahead(t) * rise(t)
        BY <4>2, <4>3, <4>4, <4>7, <4>9, <4>10, <4>11
      <4> QED  BY <2>9, <3>1, <3>2, <4>12 DEF RunsOut, ahead
    <3> QED  BY <3>2, <3>3, <3>4
  <2> QED  BY <2>10, <2>11
<1> QED  BY <1>3, <1>4

-----------------------------------------------------------------------------
(* Nothing observed is dated after the poll. *)

ObservedInv ==
  /\ \A c \in Credential : headers[c].observed <= recordedAt
  /\ \A c \in DOMAIN poll : poll[c].observed <= recordedAt
  /\ \A c \in Credential : \A i \in DOMAIN rows[c] : rows[c][i].observed <= recordedAt

LEMMA InitObserved == Init => ObservedInv
<1> SUFFICES ASSUME Init  PROVE ObservedInv
  OBVIOUS
<1>1. /\ DOMAIN poll = {} /\ \A c \in Credential : DOMAIN rows[c] = {}
      /\ \A c \in Credential : headers[c].observed <= recordedAt
  BY DEF Init, None
<1> QED  BY <1>1 DEF ObservedInv

LEMMA PollObserves ==
  ASSUME SnapInv, ObservedInv, Poll
  PROVE  ObservedInv'
<1>1. PICK at \in (recordedAt + 1)..MaxTime, listed \in SUBSET Credential :
        \E newest \in {h \in [Credential -> UNION {Headers(c, at) : c \in Credential}] :
                         \A c \in Credential : h[c] \in Headers(c, at)} :
          /\ headers' = newest
          /\ poll' \in {p \in [listed -> UNION {Observations(c, newest[c], at) : c \in listed}] :
                          \A c \in listed : p[c] \in Observations(c, newest[c], at)}
          /\ recordedAt' = at
          /\ todo' = listed
  BY DEF Poll
<1>2. recordedAt \in Int /\ at \in Int /\ recordedAt <= at /\ recordedAt' = at /\ rows' = rows
  BY <1>1, BoundAssumption DEF SnapInv, TypeOK, Moment, Poll, ledger
<1>3. ASSUME NEW c \in Credential  PROVE headers'[c].observed <= at
  <2>1. headers'[c] \in Headers(c, at)
    BY <1>1
  <2>2. headers[c].observed \in Int /\ headers[c].observed <= recordedAt
    BY BoundAssumption DEF SnapInv, TypeOK, Observation, Moment, None, ObservedInv
  <2>3. CASE headers'[c] = headers[c]
    BY <1>2, <2>2, <2>3
  <2>4. CASE headers'[c] \in [quota : Quota \ {NoQuota}, observed : {at}]
    BY <1>2, <2>4
  <2> QED  BY <2>1, <2>3, <2>4 DEF Headers
<1>4. ASSUME NEW c \in DOMAIN poll'  PROVE poll'[c].observed <= at
  <2>1. c \in Credential /\ poll'[c] \in Observations(c, headers'[c], at)
    BY <1>1
  <2>2. CASE poll'[c] = headers'[c]
    BY <1>3, <2>1, <2>2
  <2>3. CASE poll'[c] \in [quota : Quota \ {NoQuota}, observed : {at}]
    BY <1>2, <2>3
  <2> QED  BY <2>1, <2>2, <2>3 DEF Observations
<1>5. ASSUME NEW c \in Credential, NEW i \in DOMAIN rows[c]  PROVE rows[c][i].observed <= at
  <2>1. rows[c][i].observed \in Nat /\ rows[c][i].observed <= recordedAt
    BY RowsOf DEF SnapInv, ObservedInv
  <2> QED  BY <1>2, <2>1
<1> QED  BY <1>2, <1>3, <1>4, <1>5 DEF ObservedInv

\* A row is dated with its observation, or with the poll.
LEMMA RecordObserves ==
  ASSUME SnapInv, ObservedInv, NEW c \in todo, Record(c), UNCHANGED <<headers, poll, recordedAt>>
  PROVE  ObservedInv'
<1>1. c \in Credential /\ c \in DOMAIN poll
  BY DEF SnapInv, TypeOK
<1>2. /\ DOMAIN rows = Credential /\ rows[c] \in Seq(SnapshotRow)
      /\ \A d \in Credential \ {c} : rows'[d] = rows[d]
      /\ rows'[c] = IF Unchanged(c) THEN rows[c] ELSE Append(rows[c], Row(poll[c]))
  BY <1>1 DEF SnapInv, TypeOK, Record
<1>3. \A i \in DOMAIN rows[c] : rows[c][i].observed <= recordedAt
  BY <1>1 DEF ObservedInv
<1>4. Row(poll[c]).observed <= recordedAt
  <2>1. recordedAt \in Nat /\ poll[c].observed <= recordedAt
    BY <1>1, BoundAssumption DEF SnapInv, TypeOK, Moment, ObservedInv
  <2> QED  BY <2>1 DEF Row
<1>5. \A i \in DOMAIN rows'[c] : rows'[c][i].observed <= recordedAt
  <2>1. CASE Unchanged(c)
    BY <1>2, <1>3, <2>1
  <2>2. CASE ~Unchanged(c)
    <3> DEFINE row == Row(poll[c])
               q   == rows[c]
               r   == rows'[c]
    <3>1. row \in SnapshotRow
      BY <1>1, RowWell
    <3>2. r = Append(q, row) /\ q \in Seq(SnapshotRow)
      BY <1>2, <2>2
    <3> HIDE DEF row, q, r
    <3>3. /\ Len(q) \in Nat /\ DOMAIN q = 1..Len(q) /\ DOMAIN r = 1..(Len(q) + 1)
          /\ \A i \in 1..Len(q) : r[i] = q[i]
          /\ r[Len(q) + 1] = row
      BY <3>1, <3>2, AppendProperties
    <3>4. row.observed <= recordedAt /\ \A i \in DOMAIN q : q[i].observed <= recordedAt
      BY <1>3, <1>4 DEF row, q
    <3>5. \A i \in DOMAIN r : r[i].observed <= recordedAt
      BY <3>3, <3>4
    <3> QED  BY <3>5 DEF r
  <2> QED  BY <2>1, <2>2
<1> QED  BY <1>2, <1>5 DEF ObservedInv

LEMMA ObservedKeeps ==
  ASSUME SnapInv, ObservedInv, [Next]_vars
  PROVE  ObservedInv'
<1>1. CASE Poll
  BY <1>1, PollObserves
<1>2. CASE RecordNext
  <2>1. UNCHANGED <<headers, poll, recordedAt>>
    BY <1>2 DEF RecordNext
  <2>2. CASE \E c \in todo : Record(c) /\ todo' = todo \ {c} /\ pc' = pc
    BY <2>1, <2>2, RecordObserves
  <2>3. CASE UNCHANGED rows
    BY <2>1, <2>3 DEF ObservedInv
  <2> QED  BY <1>2, <2>2, <2>3 DEF RecordNext
<1>3. CASE UpsertNext
  BY <1>3 DEF UpsertNext, ObservedInv
<1>4. CASE Stamp \/ BreakOff
  <2>1. UNCHANGED <<headers, rows, recordedAt>> /\ DOMAIN poll' = {}
    BY <1>4 DEF Stamp, BreakOff, ledger
  <2> QED  BY <2>1 DEF ObservedInv
<1>5. CASE PollFails \/ UNCHANGED vars
  BY <1>5 DEF PollFails, vars, ledger, ObservedInv
<1> QED  BY <1>1, <1>2, <1>3, <1>4, <1>5 DEF Next

-----------------------------------------------------------------------------
\* Nothing snapshotOnce observes or stores is dated after its poll.
THEOREM ObservedInvariant == Spec => [](SnapInv /\ ObservedInv)
<1>1. Init => SnapInv /\ ObservedInv
  BY InitSnap, InitObserved
<1>2. (SnapInv /\ ObservedInv) /\ [Next]_vars => (SnapInv /\ ObservedInv)'
  BY ObservedKeeps, PollKeeps, UpsertKeeps, RecordNextKeeps, StampKeeps, BreakOffKeeps,
     StutterKeeps DEF Next, PollFails
<1> QED  BY <1>1, <1>2, PTL DEF Spec

\* The points drawn of a window are its changes (queries.ts, quotaHistory), for
\* every history the loop can store.
THEOREM PointsDrawn == Spec => []PointsAreChanges
<1>1. SnapInv => PointsAreChanges
  BY PointsAreTheChanges DEF SnapInv
<1> QED  BY <1>1, SnapInvariant, PTL

\* Time alone never makes a window burn faster, nor run out (runway.ts).
THEOREM RunwayNeverFaster == Spec => []IdleSlows
<1>1. SnapInv /\ ObservedInv => IdleSlows
  <2> SUFFICES ASSUME SnapInv, ObservedInv, NEW c \in Credential, NEW l \in Label,
                      NEW t \in recordedAt..(recordedAt + RateWindow + 1),
                      NEW u \in recordedAt..(recordedAt + RateWindow + 1), t < u
               PROVE  LET e == Estimate(WindowPoints(c, l), t)
                          f == Estimate(WindowPoints(c, l), u)
                      IN  /\ f # NoEstimate => e # NoEstimate
                          /\ Slower(f, e)
                          /\ \A resetsAt \in recordedAt..(recordedAt + RateWindow + 1) :
                               RunsOut(f, u, resetsAt) => RunsOut(e, t, resetsAt)
    BY DEF IdleSlows
  <2> DEFINE p == WindowPoints(c, l)
  <2>1. /\ p \in Seq(PointRecord) /\ Rises(p)
        /\ \A k \in 1..Len(p) : \E i \in 1..Len(rows[c]) : p[k].at = rows[c][i].observed
    BY WindowRises DEF SnapInv
  <2>2. recordedAt \in Nat
    BY BoundAssumption DEF SnapInv, TypeOK, Moment
  <2>3. t \in Int /\ u \in Int /\ recordedAt <= t
        /\ \A resetsAt \in recordedAt..(recordedAt + RateWindow + 1) : resetsAt \in Int
    BY <2>2, SpanAssumption
  <2>4. \A k \in 1..Len(p) : p[k].at <= t
    <3> SUFFICES ASSUME NEW k \in 1..Len(p)  PROVE p[k].at <= t
      OBVIOUS
    <3>1. PICK i \in 1..Len(rows[c]) : p[k].at = rows[c][i].observed
      BY <2>1
    <3>2. rows[c][i].observed \in Nat /\ rows[c][i].observed <= recordedAt
      BY RowsOf DEF SnapInv, ObservedInv
    <3> HIDE DEF p
    <3> QED  BY <2>2, <2>3, <3>1, <3>2
  <2> HIDE DEF p
  <2>5. LET e == Estimate(p, t)
            f == Estimate(p, u)
        IN  /\ f # NoEstimate => e # NoEstimate
            /\ Slower(f, e)
            /\ \A resetsAt \in Int : RunsOut(f, u, resetsAt) => RunsOut(e, t, resetsAt)
    BY <2>1, <2>3, <2>4, EstimateSlows
  <2> QED  BY <2>3, <2>5 DEF p
<1> QED  BY <1>1, ObservedInvariant, PTL
=============================================================================
