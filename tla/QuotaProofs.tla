---------------------------- MODULE QuotaProofs ----------------------------
(***************************************************************************)
(* Theorems about Quota: for every set of accounts, models and headers, a  *)
(* window is what the newest snapshot that speaks of it said, and the      *)
(* summary names the account whose card comes first.                       *)
(*                                                                         *)
(* Both rest on Listing: what it lists is the whole set, once each and in  *)
(* order.  The snapshots are then followed in that order (MergedSoFar), so *)
(* the last one to speak of a label is the newest; of the cards the first  *)
(* of a provider is at the least place, which is the worst.                *)
(***************************************************************************)
EXTENDS Quota, FiniteSetTheorems, FunctionTheorems, SequenceTheorems, WellFoundedInduction, TLAPS

-----------------------------------------------------------------------------
(* Inductions, over sets in place of predicates. *)

\* A set of naturals has a least element: what the inductions below rest on.
LEMMA LeastExists ==
  ASSUME NEW S \in SUBSET Nat, S # {}
  PROVE  \E x \in S : \A y \in S : x <= y
<1>1. PICK x \in S : \A y \in S : ~(<<y, x>> \in OpToRel(<, Nat))
  BY NatLessThanWellFounded, WFMin, Zenon
<1>2. \A y \in S : ~(y < x)
  BY <1>1 DEF OpToRel
<1> QED  BY <1>2

\* Induction up to n, for a set in place of a predicate.
LEMMA AllUpTo ==
  ASSUME NEW n \in Nat, NEW G, 0 \in G, \A i \in 1..n : i - 1 \in G => i \in G
  PROVE  \A i \in 0..n : i \in G
<1> DEFINE Bad == {i \in 0..n : i \notin G}
<1> SUFFICES ASSUME Bad # {}  PROVE FALSE
  OBVIOUS
<1>1. PICK k \in Bad : \A j \in Bad : k <= j
  <2>1. Bad \in SUBSET Nat
    OBVIOUS
  <2> HIDE DEF Bad
  <2> QED  BY <2>1, LeastExists
<1>2. k \in 1..n /\ k - 1 \in 0..n /\ ~(k <= k - 1)
  OBVIOUS
<1>3. k - 1 \in G
  BY <1>1, <1>2
<1> QED  BY <1>2, <1>3

\* A function may be defined by recursion on how far a sequence has been read:
\* from a, one step after the other.
LEMMA RecursionExists ==
  ASSUME NEW A, NEW a \in A, NEW n \in Nat, NEW step \in [1..n -> [A -> A]]
  PROVE  \E f \in [0..n -> A] : f[0] = a /\ \A i \in 1..n : f[i] = step[i][f[i - 1]]
<1> DEFINE Runs(f, k) == f[0] = a /\ \A i \in 1..k : f[i] = step[i][f[i - 1]]
           Reached == {k \in 0..n : \E f \in [0..k -> A] : Runs(f, k)}
<1>1. 0 \in Reached
  <2>1. [i \in 0..0 |-> a] \in [0..0 -> A] /\ Runs([i \in 0..0 |-> a], 0) /\ 0 \in 0..n
    OBVIOUS
  <2> HIDE DEF Runs
  <2> QED  BY <2>1
<1>2. ASSUME NEW k \in 1..n, k - 1 \in Reached
      PROVE  k \in Reached
  <2>1. PICK f \in [0..(k - 1) -> A] : Runs(f, k - 1)
    BY <1>2
  <2> DEFINE g == [i \in 0..k |-> IF i = k THEN step[k][f[k - 1]] ELSE f[i]]
  <2>2. k - 1 \in 0..(k - 1) /\ k \in 0..n
    OBVIOUS
  <2>3. step[k][f[k - 1]] \in A
    BY <2>2
  <2>4. g \in [0..k -> A] /\ g[0] = a
    BY <2>1, <2>3
  <2>5. ASSUME NEW i \in 1..k  PROVE g[i] = step[i][g[i - 1]]
    <3>1. CASE i = k
      BY <2>2, <3>1
    <3>2. CASE i # k
      <4>1. i \in 1..(k - 1) /\ i \in 0..k /\ i - 1 \in 0..k /\ i - 1 # k
        BY <3>2
      <4> QED  BY <2>1, <3>2, <4>1
    <3> QED  BY <3>1, <3>2
  <2>6. Runs(g, k)
    BY <2>4, <2>5
  <2> HIDE DEF Runs, g
  <2> QED  BY <2>2, <2>4, <2>6
<1>3. n \in Reached
  <2> HIDE DEF Reached
  <2>1. n \in 0..n
    OBVIOUS
  <2> QED  BY <1>1, <1>2, <2>1, AllUpTo
<1> QED  BY <1>3

(* Ranks. *)

\* The elements of a finite set that is ordered through: P[t] holds those that come
\* no later than t.
Orders(P, S) ==
  /\ \A t \in S : t \in P[t]
  /\ \A t, u \in S : t \in P[u] \/ u \in P[t]
  /\ \A t, u \in S : t \in P[u] => P[t] \subseteq P[u]
  /\ \A t, u \in S : t \in P[u] /\ u \in P[t] => t = u

\* Each rank has its element, and a lower rank comes earlier.
LEMMA RanksExist ==
  ASSUME NEW S, IsFiniteSet(S), NEW P \in [S -> SUBSET S], Orders(P, S)
  PROVE  /\ \A i \in 1..Cardinality(S) : \E t \in S : Cardinality(P[t]) = i
         /\ \A t, u \in S : Cardinality(P[t]) <= Cardinality(P[u]) => t \in P[u]
<1> DEFINE n == Cardinality(S)
           rank == [t \in S |-> Cardinality(P[t])]
<1>1. n \in Nat
  BY FS_CardinalityType
<1>2. \A t \in S : IsFiniteSet(P[t]) /\ rank[t] \in 1..n
  <2> SUFFICES ASSUME NEW t \in S  PROVE IsFiniteSet(P[t]) /\ rank[t] \in 1..n
    OBVIOUS
  <2>1. P[t] \in SUBSET S /\ t \in P[t]
    BY DEF Orders
  <2>2. IsFiniteSet(P[t]) /\ Cardinality(P[t]) <= n
    BY <2>1, FS_Subset
  <2>3. Cardinality(P[t]) \in Nat /\ Cardinality(P[t]) # 0
    BY <2>1, <2>2, FS_CardinalityType, FS_EmptySet
  <2> QED  BY <1>1, <2>2, <2>3
<1>3. ASSUME NEW t \in S, NEW u \in S, rank[t] <= rank[u]
      PROVE  t \in P[u]
  <2> SUFFICES ASSUME t \notin P[u]  PROVE FALSE
    OBVIOUS
  <2>1. u \in P[t] /\ P[u] \subseteq P[t] /\ t \in P[t]
    BY DEF Orders
  <2>2. P[u] \in SUBSET P[t] /\ P[u] # P[t]
    BY <2>1
  <2>3. Cardinality(P[u]) <= Cardinality(P[t]) /\ Cardinality(P[u]) # Cardinality(P[t])
    BY <1>2, <2>2, FS_Subset
  <2>4. rank[t] \in Int /\ rank[u] \in Int /\ rank[t] = Cardinality(P[t]) /\ rank[u] = Cardinality(P[u])
    BY <1>1, <1>2
  <2> HIDE DEF rank
  <2> QED  BY <1>3, <2>3, <2>4
<1>4. rank \in Injection(S, 1..n)
  <2>1. ASSUME NEW t \in S, NEW u \in S, rank[t] = rank[u]
        PROVE  t = u
    <3>1. rank[t] <= rank[u] /\ rank[u] <= rank[t]
      <4>1. rank[t] \in Int /\ rank[u] \in Int
        BY <1>1, <1>2
      <4> HIDE DEF rank
      <4> QED  BY <2>1, <4>1
    <3>2. t \in P[u] /\ u \in P[t]
      <4> HIDE DEF rank
      <4> QED  BY <1>3, <3>1
    <3> QED  BY <3>2 DEF Orders
  <2>2. rank \in [S -> 1..n]
    BY <1>2
  <2> HIDE DEF rank
  <2> QED  BY <2>1, <2>2 DEF Injection, IsInjective
<1>5. rank \in Surjection(S, 1..n)
  <2>1. IsFiniteSet(1..n) /\ Cardinality(1..n) = n
    BY <1>1, FS_Interval
  <2> HIDE DEF rank
  <2> QED  BY <1>4, <2>1, FS_Injection DEF n
<1>6. \A i \in 1..n : \E t \in S : rank[t] = i
  <2> HIDE DEF rank, n
  <2> QED  BY <1>5 DEF Surjection
<1> QED  BY <1>3, <1>6

\* A listing has every element once, and no later one before an earlier one.
LEMMA ListingIs ==
  ASSUME NEW S, IsFiniteSet(S), NEW P \in [S -> SUBSET S], Orders(P, S)
  PROVE  LET n == Cardinality(S)
             list == Listing(P)
         IN  /\ n \in Nat /\ list \in [1..n -> S] /\ Len(list) = n
             /\ \A x \in S : \E i \in 1..n : list[i] = x
             /\ \A i, j \in 1..n : i <= j => list[i] \in P[list[j]]
             /\ \A i, j \in 1..n : list[i] = list[j] => i = j
<1> DEFINE n == Cardinality(S)
           At(i) == CHOOSE x \in S : Cardinality(P[x]) = i
           list == [i \in 1..n |-> At(i)]
<1>1. n \in Nat
  BY FS_CardinalityType
<1>2. DOMAIN P = S
  OBVIOUS
<1>3. Listing(P) = list
  BY <1>2 DEF Listing
<1>4. /\ \A i \in 1..n : \E x \in S : Cardinality(P[x]) = i
      /\ \A x, y \in S : Cardinality(P[x]) <= Cardinality(P[y]) => x \in P[y]
  BY RanksExist
<1>5. \A i \in 1..n : list[i] \in S /\ Cardinality(P[list[i]]) = i
  BY <1>4
<1>6. list \in [1..n -> S]
  <2> HIDE DEF At, n
  <2> QED  BY <1>5
<1>7. Len(list) = n
  <2>1. list \in Seq(S) /\ DOMAIN list = 1..n
    <3> HIDE DEF list, n
    <3> QED  BY <1>1, <1>6, SeqDef
  <2> HIDE DEF list, n
  <2> DEFINE m == Len(list)
  <2>2. m \in Nat /\ 1..n = 1..m
    BY <2>1
  <2> HIDE DEF m
  <2>3. m = n
    <3>1. (n # 0 => n \in 1..m) /\ (m # 0 => m \in 1..n)
      BY <1>1, <2>2
    <3> QED  BY <1>1, <2>2, <3>1
  <2> QED  BY <2>3 DEF m
<1>8. \A x \in S : Cardinality(P[x]) \in 1..n
  <2> SUFFICES ASSUME NEW x \in S  PROVE Cardinality(P[x]) \in 1..n
    OBVIOUS
  <2>1. P[x] \in SUBSET S /\ x \in P[x]
    BY DEF Orders
  <2>2. IsFiniteSet(P[x]) /\ Cardinality(P[x]) <= n
    BY <2>1, FS_Subset
  <2>3. Cardinality(P[x]) \in Nat /\ Cardinality(P[x]) # 0
    BY <2>1, <2>2, FS_CardinalityType, FS_EmptySet
  <2> QED  BY <1>1, <2>2, <2>3
<1> HIDE DEF list, n
<1>9. ASSUME NEW x \in S  PROVE \E i \in 1..n : list[i] = x
  <2> DEFINE i == Cardinality(P[x])
  <2>1. i \in 1..n /\ list[i] \in S /\ Cardinality(P[list[i]]) = i
    BY <1>5, <1>8
  <2>2. i <= i
    BY <2>1
  <2>3. list[i] \in P[x] /\ x \in P[list[i]]
    BY <1>4, <2>1, <2>2
  <2> QED  BY <2>1, <2>3 DEF Orders
<1>10. \A i, j \in 1..n : i <= j => list[i] \in P[list[j]]
  BY <1>4, <1>5
<1>11. \A i, j \in 1..n : list[i] = list[j] => i = j
  BY <1>5
<1> QED  BY <1>1, <1>3, <1>6, <1>7, <1>9, <1>10, <1>11 DEF n

-----------------------------------------------------------------------------
(* The order of the snapshots. *)

\* What the order of a credential's snapshots needs of them.
Files(files) ==
  /\ DOMAIN files \subseteq Key /\ IsFiniteSet(DOMAIN files)
  /\ \A k \in DOMAIN files : files[k].at \in Nat

\* Two snapshots are never at the same place.
LEMMA PlacesDiffer ==
  /\ \A k \in Key : Place(k) \in Nat
  /\ \A j, k \in Key : Place(j) = Place(k) => j = k
BY KeyAssumption DEF Key, Place

\* The snapshots are gone through each once and none before an older one.
LEMMA OrderedIs ==
  ASSUME NEW files, Files(files)
  PROVE  LET n == Cardinality(DOMAIN files)
             order == Ordered(files)
         IN  /\ n \in Nat /\ order \in [1..n -> DOMAIN files] /\ Len(order) = n
             /\ \A k \in DOMAIN files : \E i \in 1..n : order[i] = k
             /\ \A i, j \in 1..n : i <= j => files[order[i]].at <= files[order[j]].at
<1> DEFINE S == DOMAIN files
           P == [k \in S |-> {j \in S : j = k \/ Before(files, j, k)}]
           n == Cardinality(S)
           list == Listing(P)
<1>1. \A k \in S : Place(k) \in Nat /\ files[k].at \in Nat
  BY PlacesDiffer DEF Files
<1>2. \A j, k \in S : Place(j) = Place(k) => j = k
  BY PlacesDiffer DEF Files
<1>3. IsFiniteSet(S)
  BY DEF Files
<1> HIDE DEF S
<1>4. P \in [S -> SUBSET S] /\ Orders(P, S)
  <2> DEFINE R(j, k) == j = k \/ Before(files, j, k)
  <2>1. \A j, k \in S : j \in P[k] <=> R(j, k)
    OBVIOUS
  <2>2. \A j, k \in S : R(j, k) \/ R(k, j)
    BY <1>1, <1>2 DEF Before
  <2>3. \A j, k, h \in S : R(j, k) /\ R(k, h) => R(j, h)
    BY <1>1 DEF Before
  <2>4. \A j, k \in S : R(j, k) /\ R(k, j) => j = k
    BY <1>1 DEF Before
  <2>5. P \in [S -> SUBSET S] /\ \A k \in S : R(k, k)
    OBVIOUS
  <2> HIDE DEF P, R
  <2> QED  BY <2>1, <2>2, <2>3, <2>4, <2>5 DEF Orders
<1>5. \A j, k \in S : j \in P[k] => files[j].at <= files[k].at
  BY <1>1 DEF Before
<1>6. Ordered(files) = list
  BY DEF Ordered, S
<1> HIDE DEF P, n, list
<1>7. /\ n \in Nat /\ list \in [1..n -> S] /\ Len(list) = n
      /\ \A x \in S : \E i \in 1..n : list[i] = x
      /\ \A i, j \in 1..n : i <= j => list[i] \in P[list[j]]
  BY <1>3, <1>4, ListingIs DEF n, list
<1>8. \A i, j \in 1..n : i <= j => files[list[i]].at <= files[list[j]].at
  BY <1>5, <1>7
<1> QED  BY <1>6, <1>7, <1>8 DEF S, n

-----------------------------------------------------------------------------
(* The merge of the snapshots. *)

\* A partial function in front of another: the first where it is defined.
LEMMA OverIs ==
  ASSUME NEW f, NEW g
  PROVE  /\ DOMAIN Over(f, g) = DOMAIN f \union DOMAIN g
         /\ \A x \in DOMAIN f : Over(f, g)[x] = f[x]
         /\ \A x \in DOMAIN g : x \notin DOMAIN f => Over(f, g)[x] = g[x]
BY DEF Over

\* The windows of snapshots, as far as some have been merged.
Windows(V, L) == UNION {[D -> V] : D \in SUBSET L}

LEMMA OverIsWindows ==
  ASSUME NEW V, NEW L, NEW f \in Windows(V, L), NEW g \in Windows(V, L)
  PROVE  Over(f, g) \in Windows(V, L)
<1>1. PICK D \in SUBSET L : f \in [D -> V]
  BY DEF Windows
<1>2. PICK E \in SUBSET L : g \in [E -> V]
  BY DEF Windows
<1>3. Over(f, g) \in [D \union E -> V]
  BY <1>1, <1>2 DEF Over
<1>4. D \union E \in SUBSET L
  OBVIOUS
<1> QED  BY <1>3, <1>4 DEF Windows

\* What the merge does is what its equations say, snapshot by snapshot.
LEMMA MergingIs ==
  ASSUME NEW c, NEW files, Files(files)
  PROVE  /\ Merging(c, files)[0] = Blank
         /\ \A i \in 1..Cardinality(DOMAIN files) :
              Merging(c, files)[i] = Merge(c, files, Ordered(files)[i], Merging(c, files)[i - 1])
<1> DEFINE S == DOMAIN files
           n == Cardinality(S)
           order == Ordered(files)
           W(k) == WindowsOf(c, files, k)
           L == UNION {DOMAIN W(k) : k \in S}
           V == UNION {{W(k)[l] : l \in DOMAIN W(k)} : k \in S}
           Acc == [windows : Windows(V, L), observedAt : Nat]
           step == [i \in 1..n |-> [acc \in Acc |-> Merge(c, files, order[i], acc)]]
           Eq(f) == f = [i \in 0..n |-> IF i = 0 THEN Blank ELSE Merge(c, files, order[i], f[i - 1])]
<1>1. n \in Nat /\ order \in [1..n -> S] /\ Len(order) = n
  BY OrderedIs
<1>2. \A k \in S : W(k) \in Windows(V, L)
  <2> SUFFICES ASSUME NEW k \in S  PROVE W(k) \in Windows(V, L)
    OBVIOUS
  <2> DEFINE D == DOMAIN W(k)
  <2>1. W(k) = [l \in D |-> W(k)[l]]
    BY DEF WindowsOf
  <2>2. D \in SUBSET L /\ \A l \in D : W(k)[l] \in V
    OBVIOUS
  <2> HIDE DEF W, L, V, D
  <2>3. W(k) \in [D -> V]
    BY <2>1, <2>2
  <2> QED  BY <2>2, <2>3 DEF Windows
<1>3. Blank \in Acc
  <2>1. <<>> \in [{} -> V] /\ {} \in SUBSET L
    OBVIOUS
  <2> HIDE DEF L, V
  <2> QED  BY <2>1 DEF Blank, Windows, Undated
<1>4. \A k \in S : \A acc \in Acc : Merge(c, files, k, acc) \in Acc
  <2> SUFFICES ASSUME NEW k \in S, NEW acc \in Acc  PROVE Merge(c, files, k, acc) \in Acc
    OBVIOUS
  <2>1. acc.windows \in Windows(V, L) /\ acc.observedAt \in Nat
    OBVIOUS
  <2>2. Over(W(k), acc.windows) \in Windows(V, L)
    <3> HIDE DEF W, L, V
    <3> QED  BY <1>2, <2>1, OverIsWindows
  <2>3. files[k].at \in Nat
    BY DEF Files
  <2> HIDE DEF L, V
  <2> QED  BY <2>1, <2>2, <2>3 DEF Merge
<1> HIDE DEF S, n, order, W, L, V, Acc
<1>5. step \in [1..n -> [Acc -> Acc]]
  BY <1>1, <1>4
<1>6. PICK f \in [0..n -> Acc] : f[0] = Blank /\ \A i \in 1..n : f[i] = step[i][f[i - 1]]
  <2> HIDE DEF step
  <2> QED  BY <1>1, <1>3, <1>5, RecursionExists
<1>7. \A i \in 1..n : f[i] = Merge(c, files, order[i], f[i - 1])
  <2> SUFFICES ASSUME NEW i \in 1..n  PROVE f[i] = Merge(c, files, order[i], f[i - 1])
    OBVIOUS
  <2>1. i - 1 \in 0..n /\ f[i - 1] \in Acc
    BY <1>1, <1>6
  <2>2. step[i][f[i - 1]] = Merge(c, files, order[i], f[i - 1])
    BY <2>1
  <2> QED  BY <1>6, <2>2
<1>8. Eq(f)
  <2>1. ASSUME NEW i \in 0..n
        PROVE  f[i] = IF i = 0 THEN Blank ELSE Merge(c, files, order[i], f[i - 1])
    <3>1. i = 0 \/ i \in 1..n
      BY <1>1
    <3> HIDE DEF step
    <3> QED  BY <1>6, <1>7, <3>1
  <2> HIDE DEF step
  <2> QED  BY <1>6, <2>1
<1> DEFINE m == Merging(c, files)
<1>9. m = CHOOSE g : Eq(g)
  BY <1>1 DEF Merging, order
<1>10. Eq(m)
  <2> HIDE DEF Eq, m
  <2> QED  BY <1>8, <1>9
<1> HIDE DEF m
<1>11. m[0] = Blank
  BY <1>1, <1>10
<1>12. \A i \in 1..n : m[i] = Merge(c, files, order[i], m[i - 1])
  BY <1>1, <1>10
<1> QED  BY <1>11, <1>12 DEF m, n, S, order

\* After i snapshots: a window for each label they speak of, as the last of them to
\* speak of it has it, and an instant no earlier than any of theirs.
MergedSoFar(c, files, i) ==
  LET W(j) == WindowsOf(c, files, Ordered(files)[j])
      m    == Merging(c, files)[i]
  IN  /\ DOMAIN m.windows = UNION {DOMAIN W(j) : j \in 1..i}
      /\ \A l \in DOMAIN m.windows : \E j \in 1..i :
           /\ l \in DOMAIN W(j) /\ m.windows[l] = W(j)[l]
           /\ \A h \in 1..i : l \in DOMAIN W(h) => h <= j
      /\ m.observedAt \in Nat
      /\ \A j \in 1..i : files[Ordered(files)[j]].at <= m.observedAt

LEMMA MergeKeepsUp ==
  ASSUME NEW c, NEW files, Files(files), NEW i \in 1..Cardinality(DOMAIN files),
         MergedSoFar(c, files, i - 1)
  PROVE  MergedSoFar(c, files, i)
<1> DEFINE n == Cardinality(DOMAIN files)
           order == Ordered(files)
           W(j) == WindowsOf(c, files, order[j])
           at(j) == files[order[j]].at
           old == Merging(c, files)[i - 1]
           new == Merging(c, files)[i]
<1>1. /\ n \in Nat /\ order \in [1..n -> DOMAIN files]
      /\ \A j, k \in 1..n : j <= k => at(j) <= at(k)
  BY OrderedIs
<1>2. i \in 1..n /\ i \in Nat /\ i - 1 \in Nat /\ \A j \in 1..i : j \in 1..n /\ j \in Int /\ j <= i
  BY <1>1
<1>3. \A j \in 1..i : at(j) \in Nat
  BY <1>1, <1>2 DEF Files
<1>4. new = Merge(c, files, order[i], old)
  BY MergingIs
<1>5. /\ new.windows = Over(W(i), old.windows)
      /\ new.observedAt = IF at(i) # Undated THEN at(i) ELSE old.observedAt
  BY <1>4 DEF Merge
<1>6. /\ DOMAIN old.windows = UNION {DOMAIN W(j) : j \in 1..(i - 1)}
      /\ \A l \in DOMAIN old.windows : \E j \in 1..(i - 1) :
           /\ l \in DOMAIN W(j) /\ old.windows[l] = W(j)[l]
           /\ \A h \in 1..(i - 1) : l \in DOMAIN W(h) => h <= j
      /\ old.observedAt \in Nat
      /\ \A j \in 1..(i - 1) : at(j) <= old.observedAt
  BY DEF MergedSoFar
<1>7. \A j \in 1..i : j = i \/ j \in 1..(i - 1)
  BY <1>2
<1>8. \A j \in 1..(i - 1) : j \in 1..i /\ j <= i
  BY <1>2
<1> HIDE DEF W, at, old, new, order, n
<1>9. /\ DOMAIN new.windows = DOMAIN W(i) \union DOMAIN old.windows
      /\ \A l \in DOMAIN W(i) : new.windows[l] = W(i)[l]
      /\ \A l \in DOMAIN old.windows : l \notin DOMAIN W(i) => new.windows[l] = old.windows[l]
  <2> DEFINE f == W(i)
             g == old.windows
  <2>1. new.windows = Over(f, g)
    BY <1>5
  <2> HIDE DEF f, g
  <2>2. /\ DOMAIN Over(f, g) = DOMAIN f \union DOMAIN g
        /\ \A l \in DOMAIN f : Over(f, g)[l] = f[l]
        /\ \A l \in DOMAIN g : l \notin DOMAIN f => Over(f, g)[l] = g[l]
    BY OverIs
  <2>3. /\ DOMAIN new.windows = DOMAIN f \union DOMAIN g
        /\ \A l \in DOMAIN f : new.windows[l] = f[l]
        /\ \A l \in DOMAIN g : l \notin DOMAIN f => new.windows[l] = g[l]
    <3> HIDE DEF new
    <3> QED  BY <2>1, <2>2, Zenon
  <2> QED  BY <2>3 DEF f, g
<1>10. DOMAIN new.windows = UNION {DOMAIN W(j) : j \in 1..i}
  <2>1. i \in 1..i
    BY <1>2
  <2> QED  BY <1>6, <1>7, <1>8, <1>9, <2>1
<1>11. ASSUME NEW l \in DOMAIN new.windows
       PROVE  \E j \in 1..i : /\ l \in DOMAIN W(j) /\ new.windows[l] = W(j)[l]
                              /\ \A h \in 1..i : l \in DOMAIN W(h) => h <= j
  <2>1. CASE l \in DOMAIN W(i)
    <3>1. i \in 1..i
      BY <1>2
    <3> QED  BY <1>2, <1>9, <2>1, <3>1
  <2>2. CASE l \notin DOMAIN W(i)
    <3>1. l \in DOMAIN old.windows /\ new.windows[l] = old.windows[l]
      BY <1>9, <2>2
    <3>2. PICK j \in 1..(i - 1) : /\ l \in DOMAIN W(j) /\ old.windows[l] = W(j)[l]
                                  /\ \A h \in 1..(i - 1) : l \in DOMAIN W(h) => h <= j
      BY <1>6, <3>1
    <3>3. \A h \in 1..i : l \in DOMAIN W(h) => h <= j
      BY <1>7, <2>2, <3>2
    <3> QED  BY <1>8, <3>1, <3>2, <3>3
  <2> QED  BY <2>1, <2>2
<1>12. new.observedAt \in Nat /\ \A j \in 1..i : at(j) <= new.observedAt
  <2>0. i \in 1..i /\ at(i) \in Nat /\ \A j \in 1..i : at(j) <= at(i)
    BY <1>1, <1>2, <1>3
  <2>1. CASE at(i) # Undated
    BY <1>5, <2>0, <2>1
  <2>2. CASE at(i) = Undated
    <3>1. new.observedAt = old.observedAt /\ at(i) <= old.observedAt
      BY <1>5, <1>6, <2>2 DEF Undated
    <3> QED  BY <1>6, <1>7, <3>1
  <2> QED  BY <2>1, <2>2
<1> QED  BY <1>10, <1>11, <1>12 DEF MergedSoFar, W, at, new, order

\* The whole merge.
LEMMA MergeEnds ==
  ASSUME NEW c, NEW files, Files(files)
  PROVE  MergedSoFar(c, files, Cardinality(DOMAIN files))
<1> DEFINE n == Cardinality(DOMAIN files)
           G == {i \in 0..n : MergedSoFar(c, files, i)}
<1>1. n \in Nat
  BY OrderedIs
<1>2. MergedSoFar(c, files, 0)
  <2>1. Merging(c, files)[0] = Blank /\ 1..0 = {}
    BY MergingIs
  <2>2. DOMAIN Blank.windows = {} /\ Blank.observedAt = 0
    BY DEF Blank, Undated
  <2> QED  BY <2>1, <2>2 DEF MergedSoFar
<1>3. ASSUME NEW i \in 1..n, i - 1 \in G  PROVE i \in G
  <2>1. i \in 0..n /\ MergedSoFar(c, files, i - 1)
    BY <1>1, <1>3
  <2> QED  BY <2>1, MergeKeepsUp
<1>4. 0 \in G /\ n \in 0..n
  BY <1>1, <1>2
<1> HIDE DEF G
<1>5. n \in G
  <2> HIDE DEF n
  <2> QED  BY <1>1, <1>3, <1>4, AllUpTo
<1> QED  BY <1>5 DEF G

-----------------------------------------------------------------------------
(* Types. *)

LEMMA ReplyTypes ==
  ASSUME TypeOK, NEW c \in Credential, NEW k \in Key, Reply(c, k)
  PROVE  TypeOK'
<1>1. /\ reports \in 0..MaxReports /\ reports < MaxReports /\ reports' = reports + 1
      /\ ~shown /\ shown' = shown /\ DOMAIN snapshots = Credential
  BY DEF TypeOK, Reply
<1>2. PICK r \in Report[c], at \in {Undated, reports + 1} :
        snapshots' = [snapshots EXCEPT ![c] =
                        Over([j \in {k} |-> [used |-> r.used, minutes |-> r.minutes, flag |-> r.flag, at |-> at]],
                             snapshots[c])]
  BY DEF Reply
<1> DEFINE new == [used |-> r.used, minutes |-> r.minutes, flag |-> r.flag, at |-> at]
           said == [j \in {k} |-> new]
<1>3. reports' \in 0..MaxReports /\ shown' \in BOOLEAN /\ DOMAIN snapshots' = Credential
  BY <1>1, <1>2, BoundAssumption DEF TypeOK
<1>4. \A d \in Credential : \A s \in Snapshot(d) : s \in Snapshot(d)'
  BY <1>1, BoundAssumption DEF Snapshot
<1>5. new \in Snapshot(c)'
  BY <1>1, <1>2, BoundAssumption DEF Snapshot, Undated
<1>6. /\ snapshots'[c] = Over(said, snapshots[c])
      /\ \A d \in Credential : d # c => snapshots'[d] = snapshots[d]
  BY <1>1, <1>2
<1>7. \A d \in Credential : /\ DOMAIN snapshots[d] \subseteq Key /\ IsFiniteSet(DOMAIN snapshots[d])
                            /\ snapshots[d] \in [DOMAIN snapshots[d] -> Snapshot(d)]
  BY DEF TypeOK
<1>8. ASSUME NEW d \in Credential
      PROVE  /\ DOMAIN snapshots'[d] \subseteq Key /\ IsFiniteSet(DOMAIN snapshots'[d])
             /\ snapshots'[d] \in [DOMAIN snapshots'[d] -> Snapshot(d)']
  <2>1. CASE d = c
    <3>1. DOMAIN Over(said, snapshots[c]) = DOMAIN snapshots[c] \union {k}
      BY DEF Over
    <3>2. IsFiniteSet(DOMAIN snapshots[c] \union {k})
      BY <1>7, FS_AddElement
    <3>3. \A j \in DOMAIN snapshots[c] : snapshots[c][j] \in Snapshot(c)'
      BY <1>4, <1>7
    <3> HIDE DEF new
    <3>4. Over(said, snapshots[c]) \in [DOMAIN snapshots[c] \union {k} -> Snapshot(c)']
      BY <1>5, <3>3 DEF Over
    <3> HIDE DEF said
    <3> QED  BY <1>6, <1>7, <2>1, <3>1, <3>2, <3>4
  <2>2. CASE d # c
    BY <1>4, <1>6, <1>7, <2>2
  <2> QED  BY <2>1, <2>2
<1> QED  BY <1>1, <1>3, <1>8 DEF TypeOK

\* What the gateway keeps and what the reads bring have the form the fold expects.
THEOREM TypeCorrect == Spec => []TypeOK
<1>1. Init => TypeOK
  <2>1. DOMAIN <<>> = {} /\ IsFiniteSet({})
    BY FS_EmptySet
  <2>2. Init => \A c \in Credential : snapshots[c] = <<>>
    BY DEF Init
  <2>3. \A c : <<>> \in [{} -> Snapshot(c)]
    OBVIOUS
  <2>4. Init => \A c \in Credential : /\ DOMAIN snapshots[c] \subseteq Key
                                      /\ IsFiniteSet(DOMAIN snapshots[c])
                                      /\ snapshots[c] \in [DOMAIN snapshots[c] -> Snapshot(c)]
    BY <2>1, <2>2, <2>3
  <2>5. Init => /\ reports \in 0..MaxReports /\ shown = FALSE /\ DOMAIN snapshots = Credential
    BY BoundAssumption DEF Init
  <2> QED  BY <2>4, <2>5 DEF TypeOK
<1>2. TypeOK /\ [Next]_vars => TypeOK'
  <2> SUFFICES ASSUME TypeOK, [Next]_vars  PROVE TypeOK'
    OBVIOUS
  <2>1. CASE Pools
    BY <2>1 DEF TypeOK, Pools, Snapshot
  <2>2. CASE Leave
    BY <2>2 DEF TypeOK, Leave, Snapshot
  <2>3. CASE \E c \in Credential, k \in Key : Reply(c, k)
    BY <2>3, ReplyTypes
  <2>4. CASE UNCHANGED vars
    BY <2>4 DEF TypeOK, vars, Snapshot
  <2> QED  BY <2>1, <2>2, <2>3, <2>4 DEF Next
<1> QED  BY <1>1, <1>2, PTL DEF Spec

-----------------------------------------------------------------------------
(* The newest snapshot wins. *)

LEMMA FilesKept ==
  ASSUME TypeOK, NEW c \in Credential
  PROVE  Files(snapshots[c])
<1>1. /\ DOMAIN snapshots[c] \subseteq Key /\ IsFiniteSet(DOMAIN snapshots[c])
      /\ snapshots[c] \in [DOMAIN snapshots[c] -> Snapshot(c)]
  BY DEF TypeOK
<1>2. \A s \in Snapshot(c) : s.at \in Nat
  BY DEF Snapshot, TypeOK
<1> QED  BY <1>1, <1>2 DEF Files

\* quotaOf's windows are those of the newest snapshots, and so is its instant.
LEMMA LatestOf ==
  ASSUME TypeOK, NEW c \in Credential
  PROVE  LET q == QuotaOf(c)
         IN  /\ DOMAIN q.windows = Labels(c)
             /\ \A l \in Labels(c) : \E k \in Newest(c, l) :
                  q.windows[l] = WindowsOf(c, snapshots[c], k)[l]
             /\ \A k \in DOMAIN snapshots[c] : snapshots[c][k].at <= q.observedAt
<1> DEFINE files == snapshots[c]
           n == Cardinality(DOMAIN files)
           order == Ordered(files)
           W(k) == WindowsOf(c, files, k)
           q == QuotaOf(c)
           m == Merging(c, files)[n]
<1>1. Files(files)
  BY FilesKept
<1>2. /\ n \in Nat /\ order \in [1..n -> DOMAIN files] /\ Len(order) = n
      /\ \A k \in DOMAIN files : \E i \in 1..n : order[i] = k
      /\ \A i, j \in 1..n : i <= j => files[order[i]].at <= files[order[j]].at
  BY <1>1, OrderedIs
<1>3. q.windows = m.windows /\ q.observedAt = m.observedAt
  BY <1>2 DEF QuotaOf
<1>4. /\ DOMAIN m.windows = UNION {DOMAIN W(order[j]) : j \in 1..n}
      /\ \A l \in DOMAIN m.windows : \E j \in 1..n :
           /\ l \in DOMAIN W(order[j]) /\ m.windows[l] = W(order[j])[l]
           /\ \A h \in 1..n : l \in DOMAIN W(order[h]) => h <= j
      /\ \A j \in 1..n : files[order[j]].at <= m.observedAt
  BY <1>1, MergeEnds DEF MergedSoFar
<1>5. Labels(c) = UNION {DOMAIN W(k) : k \in DOMAIN files}
  BY DEF Labels
<1>6. \A l, k : k \in Newest(c, l) <=>
        /\ k \in DOMAIN files /\ l \in DOMAIN W(k)
        /\ \A j \in DOMAIN files : l \in DOMAIN W(j) => files[j].at <= files[k].at
  BY DEF Newest
<1> HIDE DEF W, files, n, order, q, m
<1>7. DOMAIN q.windows = Labels(c)
  <2>1. \A j \in 1..n : order[j] \in DOMAIN files
    BY <1>2
  <2>2. UNION {DOMAIN W(order[j]) : j \in 1..n} = UNION {DOMAIN W(k) : k \in DOMAIN files}
    BY <1>2, <2>1
  <2> QED  BY <1>3, <1>4, <1>5, <2>2
<1>8. ASSUME NEW l \in Labels(c)
      PROVE  \E k \in Newest(c, l) : q.windows[l] = W(k)[l]
  <2>1. PICK j \in 1..n : /\ l \in DOMAIN W(order[j]) /\ q.windows[l] = W(order[j])[l]
                          /\ \A h \in 1..n : l \in DOMAIN W(order[h]) => h <= j
    BY <1>3, <1>4, <1>7
  <2>2. ASSUME NEW k \in DOMAIN files, l \in DOMAIN W(k)
        PROVE  files[k].at <= files[order[j]].at
    <3>1. PICK h \in 1..n : order[h] = k
      BY <1>2
    <3> QED  BY <1>2, <2>1, <2>2, <3>1
  <2>3. order[j] \in DOMAIN files
    BY <1>2
  <2>4. order[j] \in Newest(c, l)
    BY <1>6, <2>1, <2>2, <2>3
  <2> QED  BY <2>1, <2>4
<1>9. \A k \in DOMAIN files : files[k].at <= q.observedAt
  BY <1>2, <1>3, <1>4
<1> QED  BY <1>7, <1>8, <1>9 DEF q, W, files

\* "The latest observation per label wins" (quota.ts:133), for any snapshots in any
\* order, dated or not.
THEOREM LatestWins == Spec => []LatestPerLabel
<1>1. TypeOK => LatestPerLabel
  BY LatestOf DEF LatestPerLabel
<1> QED  BY <1>1, TypeCorrect, PTL

-----------------------------------------------------------------------------
(* The levels of the windows. *)

Levels(windows) == \A l \in DOMAIN windows : windows[l].used \in Percent

IsQuota(q) == q = [windows |-> q.windows, observedAt |-> q.observedAt, onDemand |-> q.onDemand]

\* A header's level is one.
LEMMA HeaderLevels ==
  ASSUME TypeOK, NEW c \in Credential, NEW k \in DOMAIN snapshots[c]
  PROVE  Levels(WindowsOf(c, snapshots[c], k))
<1> DEFINE files == snapshots[c]
           used == Only(files[k].used, {t \in TiersOf(c) : LabelOf(files, k, t) # Placeholder})
           L == {LabelOf(files, k, t) : t \in DOMAIN used}
           tiers(l) == {t \in DOMAIN used : LabelOf(files, k, t) = l}
           tier(l) == CHOOSE t \in tiers(l) : "secondary" \in tiers(l) => t = "secondary"
           windows == WindowsOf(c, files, k)
<1>1. \A t \in DOMAIN used : used[t] \in Percent
  <2>1. files[k] \in Snapshot(c)
    BY DEF TypeOK
  <2>2. PICK r \in Report[c] : files[k].used = r.used
    BY <2>1 DEF Snapshot
  <2>3. \A t \in DOMAIN r.used : r.used[t] \in Percent
    BY ReportAssumption
  <2> QED  BY <2>2, <2>3 DEF Only
<1>2. DOMAIN windows = L /\ \A l \in L : windows[l].used = used[tier(l)]
  BY DEF WindowsOf, Window
<1>3. ASSUME NEW l \in L  PROVE tier(l) \in DOMAIN used
  <2>1. \E t \in tiers(l) : "secondary" \in tiers(l) => t = "secondary"
    OBVIOUS
  <2> QED  BY <2>1
<1> HIDE DEF windows, L, used, tier
<1>4. \A l \in DOMAIN windows : windows[l].used \in Percent
  BY <1>1, <1>2, <1>3
<1> QED  BY <1>4 DEF Levels, windows, files

\* And so is one of the merge.
LEMMA MergedLevels ==
  ASSUME TypeOK, NEW c \in Credential
  PROVE  IsQuota(QuotaOf(c)) /\ Levels(QuotaOf(c).windows)
<1> DEFINE q == QuotaOf(c)
           W(k) == WindowsOf(c, snapshots[c], k)
<1>1. IsQuota(q)
  BY DEF QuotaOf, IsQuota
<1>2. /\ DOMAIN q.windows = Labels(c)
      /\ \A l \in Labels(c) : \E k \in Newest(c, l) : q.windows[l] = W(k)[l]
  BY LatestOf
<1>3. \A l, k : k \in Newest(c, l) => k \in DOMAIN snapshots[c] /\ l \in DOMAIN W(k)
  BY DEF Newest
<1>4. \A k \in DOMAIN snapshots[c] : \A l \in DOMAIN W(k) : W(k)[l].used \in Percent
  BY HeaderLevels DEF Levels
<1> HIDE DEF q, W
<1>5. Levels(q.windows)
  BY <1>2, <1>3, <1>4 DEF Levels
<1> QED  BY <1>1, <1>5 DEF q

\* Windows made from levels have them.
LEMMA UsageLevels ==
  ASSUME NEW used, \A l \in DOMAIN used : used[l] \in Percent
  PROVE  Levels(UsageWindows(used))
BY DEF Levels, UsageWindows, Window

LEMMA ClaudeLevels ==
  ASSUME NEW u, \A l \in DOMAIN u.used : u.used[l] \in Percent,
         \A i \in DOMAIN u.limits : u.limits[i].used \in Percent
  PROVE  Levels(ClaudeWindows(u))
<1> DEFINE limit == FableLimit(u.limits)
           fable == [l \in {Flagship : x \in limit} |-> (CHOOSE x \in limit : TRUE).used]
<1>1. \A x \in limit : x.used \in Percent
  BY DEF FableLimit
<1> HIDE DEF limit
<1>2. \A l \in DOMAIN fable : fable[l] \in Percent
  BY <1>1
<1>3. DOMAIN Over(fable, u.used) = DOMAIN fable \union DOMAIN u.used
      /\ \A l \in DOMAIN Over(fable, u.used) :
           Over(fable, u.used)[l] = IF l \in DOMAIN fable THEN fable[l] ELSE u.used[l]
  BY DEF Over
<1> HIDE DEF fable
<1>4. \A l \in DOMAIN Over(fable, u.used) : Over(fable, u.used)[l] \in Percent
  BY <1>2, <1>3
<1> QED  BY <1>4, UsageLevels DEF ClaudeWindows, fable, limit

LEMMA CodexLevels ==
  ASSUME NEW u, \A l \in DOMAIN u.used : u.used[l] \in Percent
  PROVE  Levels(CodexWindows(u))
BY DEF Levels, CodexWindows, Window

LEMMA XaiLevels ==
  ASSUME NEW u, \A l \in DOMAIN u.used : u.used[l] \in Percent
  PROVE  Levels(XaiWindows(u))
<1> DEFINE used == Over(u.used, [l \in {"grokbuild"} |-> 0])
<1>1. \A l \in DOMAIN used : used[l] \in Percent
  BY DEF Over, Percent
<1> HIDE DEF used
<1>2. Levels(UsageWindows(used))
  BY <1>1, UsageLevels
<1> QED  BY <1>2 DEF XaiWindows, used

\* Changing one part of a quota leaves the others.
LEMMA QuotaParts ==
  ASSUME NEW q, IsQuota(q), NEW v
  PROVE  /\ IsQuota(Replace(q, v)) /\ Replace(q, v).windows = v
         /\ IsQuota(Dated(q)) /\ Dated(q).windows = q.windows
         /\ IsQuota([q EXCEPT !.onDemand = v]) /\ [q EXCEPT !.onDemand = v].windows = q.windows
BY DEF IsQuota, Replace, Dated

\* Whatever the usage reads brought, the levels shown are levels.
LEMMA QuotaLevels ==
  ASSUME TypeOK, shown, NEW c \in Credential
  PROVE  Levels(Quota(c).windows)
<1> DEFINE q == QuotaOf(c)
           u == usage[c]
<1>1. IsQuota(q) /\ Levels(q.windows)
  BY MergedLevels
<1>2. c \in Asked /\ u.kind # "none" =>
        /\ \A l \in DOMAIN u.used : u.used[l] \in Percent
        /\ Provider[c] = "claude" => \A i \in DOMAIN u.limits : u.limits[i].used \in Percent
  BY UsageAssumption DEF TypeOK, NoUsage
<1> HIDE DEF q, u
<1>3. CASE c \notin Asked
  BY <1>1, <1>3 DEF Quota, q
<1>4. CASE c \in Asked /\ Provider[c] = "claude"
  <2> DEFINE w == ClaudeWindows(u)
             spent == [q EXCEPT !.onDemand = u.onDemand]
  <2>1. Quota(c) = WithClaudeUsage(q, u)
    BY <1>4 DEF Quota, q, u
  <2>2. CASE u.kind = "none" \/ (DOMAIN w = {} /\ ~u.onDemand)
    BY <1>1, <2>1, <2>2 DEF WithClaudeUsage
  <2>3. CASE ~(u.kind = "none" \/ (DOMAIN w = {} /\ ~u.onDemand))
    <3>1. Quota(c) = Dated(IF DOMAIN w = {} THEN spent ELSE Replace(spent, w))
      BY <2>1, <2>3 DEF WithClaudeUsage
    <3>2. Levels(w)
      BY <1>2, <1>4, <2>3, ClaudeLevels
    <3>3. IsQuota(spent) /\ spent.windows = q.windows
      BY <1>1, QuotaParts
    <3> HIDE DEF w, spent
    <3>4. IsQuota(Replace(spent, w)) /\ Replace(spent, w).windows = w
      BY <3>3, QuotaParts
    <3>5. Dated(spent).windows = q.windows /\ Dated(Replace(spent, w)).windows = w
      BY <3>3, <3>4, QuotaParts
    <3> QED  BY <1>1, <3>1, <3>2, <3>5
  <2> QED  BY <2>2, <2>3
<1>5. CASE c \in Asked /\ Provider[c] = "codex"
  <2> DEFINE w == CodexWindows(u)
  <2>1. Quota(c) = WithCodexUsage(q, u)
    BY <1>5 DEF Quota, q, u
  <2>2. CASE u.kind = "none" \/ DOMAIN w = {}
    BY <1>1, <2>1, <2>2 DEF WithCodexUsage
  <2>3. CASE ~(u.kind = "none" \/ DOMAIN w = {})
    <3>1. Quota(c) = Dated(Replace(q, w))
      BY <2>1, <2>3 DEF WithCodexUsage
    <3>2. Levels(w)
      BY <1>2, <1>5, <2>3, CodexLevels
    <3> HIDE DEF w
    <3>3. IsQuota(Replace(q, w)) /\ Replace(q, w).windows = w
      BY <1>1, QuotaParts
    <3>4. Dated(Replace(q, w)).windows = w
      BY <3>3, QuotaParts
    <3> QED  BY <3>1, <3>2, <3>4
  <2> QED  BY <2>2, <2>3
<1>6. CASE c \in Asked /\ Provider[c] = "xai"
  <2> DEFINE w == XaiWindows(u)
  <2>1. Quota(c) = WithXaiBilling(q, u)
    BY <1>6 DEF Quota, q, u
  <2>2. CASE u.kind = "none"
    <3>1. Quota(c).windows = <<>>
      BY <1>1, <2>1, <2>2 DEF WithXaiBilling, IsQuota
    <3> QED  BY <3>1 DEF Levels
  <2>3. CASE u.kind # "none"
    <3>1. Quota(c) = Dated([Replace(q, w) EXCEPT !.onDemand = u.onDemand])
      BY <2>1, <2>3 DEF WithXaiBilling
    <3>2. Levels(w)
      BY <1>2, <1>6, <2>3, XaiLevels
    <3> DEFINE r == Replace(q, w)
               s == [r EXCEPT !.onDemand = u.onDemand]
    <3> HIDE DEF w
    <3>3. IsQuota(r) /\ r.windows = w
      BY <1>1, QuotaParts
    <3> HIDE DEF r
    <3>4. IsQuota(s) /\ s.windows = w
      BY <3>3, QuotaParts
    <3> HIDE DEF s
    <3>5. Dated(s).windows = w
      BY <3>4, QuotaParts
    <3> QED  BY <3>1, <3>2, <3>5 DEF s, r
  <2> QED  BY <2>2, <2>3
<1> QED  BY <1>3, <1>4, <1>5, <1>6, AskedAssumption

-----------------------------------------------------------------------------
(* The cards. *)

\* A credential reports if it has a primary window; what is left of that is less
\* than what a credential without one sorts by.
LEMMA RemainingIs ==
  ASSUME NEW q, Levels(q.windows)
  PROVE  /\ Remaining(q) \in Int
         /\ Primary(q) = <<>> => Remaining(q) = Infinity
         /\ Primary(q) # <<>> => /\ Remaining(q) < Infinity
                                 /\ Primary(q)[1].used = 100 - Remaining(q)
<1>1. CASE Primary(q) = <<>>
  BY <1>1 DEF Remaining, Infinity
<1>2. CASE Primary(q) # <<>>
  <2>1. PICK l \in DOMAIN q.windows : Primary(q) = <<q.windows[l]>>
    BY <1>2 DEF Primary
  <2> DEFINE x == Primary(q)[1].used
  <2>2. x \in 0..100
    BY <2>1 DEF Levels, Percent
  <2>3. Remaining(q) = 100 - x
    BY <1>2 DEF Remaining
  <2> HIDE DEF x
  <2>4. Remaining(q) \in Int /\ Remaining(q) < Infinity /\ x = 100 - Remaining(q)
    BY <2>2, <2>3 DEF Infinity
  <2> QED  BY <1>2, <2>4 DEF x
<1> QED  BY <1>1, <1>2

\* The cards are all of the credentials, in the order of what remains and the labels.
LEMMA CardsAre ==
  ASSUME NEW pools, \A c \in Credential : Remaining(pools[c]) \in Int
  PROVE  LET n == Cardinality(Credential)
             cards == Cards(pools)
         IN  /\ n \in Nat /\ cards \in [1..n -> Credential]
             /\ \A c \in Credential : \E i \in 1..n : cards[i] = c
             /\ \A i, j \in 1..n : i <= j =>
                  \/ Remaining(pools[cards[i]]) < Remaining(pools[cards[j]])
                  \/ /\ Remaining(pools[cards[i]]) = Remaining(pools[cards[j]])
                     /\ Rank[cards[i]] <= Rank[cards[j]]
<1> DEFINE left(c) == Remaining(pools[c])
           R(c, d) == left(c) < left(d) \/ (left(c) = left(d) /\ Rank[c] <= Rank[d])
           P == [d \in Credential |-> {c \in Credential : R(c, d)}]
           n == Cardinality(Credential)
           list == Listing(P)
<1>1. \A c \in Credential : left(c) \in Int /\ Rank[c] \in Int
  BY CredentialAssumption
<1>2. \A c, d \in Credential : Rank[c] = Rank[d] => c = d
  BY CredentialAssumption
<1>3. Cards(pools) = list
  BY DEF Cards
<1> HIDE DEF left
<1>4. P \in [Credential -> SUBSET Credential] /\ Orders(P, Credential)
  <2>1. \A c, d \in Credential : c \in P[d] <=> R(c, d)
    OBVIOUS
  <2>2. \A c, d \in Credential : R(c, d) \/ R(d, c)
    BY <1>1
  <2>3. \A c, d, e \in Credential : R(c, d) /\ R(d, e) => R(c, e)
    BY <1>1
  <2>4. \A c, d \in Credential : R(c, d) /\ R(d, c) => c = d
    BY <1>1, <1>2
  <2>5. P \in [Credential -> SUBSET Credential] /\ \A c \in Credential : R(c, c)
    BY <1>1
  <2> HIDE DEF P, R
  <2> QED  BY <2>1, <2>2, <2>3, <2>4, <2>5 DEF Orders
<1>5. \A c, d \in Credential : c \in P[d] => R(c, d)
  OBVIOUS
<1> HIDE DEF P, n, list, R
<1>6. /\ n \in Nat /\ list \in [1..n -> Credential]
      /\ \A c \in Credential : \E i \in 1..n : list[i] = c
      /\ \A i, j \in 1..n : i <= j => list[i] \in P[list[j]]
  BY <1>4, ListingIs, CredentialAssumption DEF n, list
<1>7. \A i, j \in 1..n : i <= j => R(list[i], list[j])
  BY <1>5, <1>6
<1> QED  BY <1>3, <1>6, <1>7 DEF n, R, left

\* The first card of a provider is its worst account, if any reports.
LEMMA WorstIsFirst ==
  ASSUME NEW pools, \A c \in Credential : Levels(pools[c].windows),
         NEW p, Worst(pools, p) # {}
  PROVE  LET cards == Cards(pools)
             own   == {i \in DOMAIN cards : Provider[cards[i]] = p}
         IN  \E i \in own : (\A j \in own : i <= j) /\ Worst(pools, p) = {cards[i]}
<1> DEFINE n == Cardinality(Credential)
           cards == Cards(pools)
           own == {i \in DOMAIN cards : Provider[cards[i]] = p}
           left(c) == Remaining(pools[c])
           used(c) == Primary(pools[c])[1].used
           reporting == {c \in Credential : Provider[c] = p /\ Primary(pools[c]) # <<>>}
           worst == Worst(pools, p)
<1>1. \A c \in Credential :
        /\ left(c) \in Int
        /\ Primary(pools[c]) = <<>> => left(c) = Infinity
        /\ Primary(pools[c]) # <<>> => left(c) < Infinity /\ used(c) = 100 - left(c)
  BY RemainingIs
<1>2. /\ n \in Nat /\ cards \in [1..n -> Credential]
      /\ \A c \in Credential : \E i \in 1..n : cards[i] = c
      /\ \A i, j \in 1..n : i <= j =>
           \/ left(cards[i]) < left(cards[j])
           \/ left(cards[i]) = left(cards[j]) /\ Rank[cards[i]] <= Rank[cards[j]]
  BY <1>1, CardsAre
<1>3. worst = {c \in reporting : \A d \in reporting :
                 used(c) > used(d) \/ (used(c) = used(d) /\ Rank[c] <= Rank[d])}
  BY DEF Worst
<1>4. DOMAIN cards = 1..n
  BY <1>2
<1>5. \A c \in reporting : /\ c \in Credential /\ Provider[c] = p /\ left(c) \in Int
                           /\ left(c) < Infinity /\ used(c) = 100 - left(c)
  BY <1>1
<1>6. \A c \in Credential : Provider[c] = p /\ left(c) < Infinity => c \in reporting
  BY <1>1 DEF Infinity
<1>7. \A c \in Credential : Rank[c] \in Int
  BY CredentialAssumption
<1> HIDE DEF left, used, reporting, worst, cards, n
<1>8. worst = {c \in reporting : \A d \in reporting :
                 left(c) < left(d) \/ (left(c) = left(d) /\ Rank[c] <= Rank[d])}
  <2>1. \A c, d \in reporting : /\ used(c) > used(d) <=> left(c) < left(d)
                                /\ used(c) = used(d) <=> left(c) = left(d)
    BY <1>5
  <2> QED  BY <1>3, <2>1
<1>9. PICK c \in reporting : TRUE
  BY <1>8 DEF worst
<1>10. PICK h \in 1..n : cards[h] = c
  BY <1>2, <1>5
<1>11. own # {} /\ own \in SUBSET Nat /\ \A i \in own : i \in 1..n /\ Provider[cards[i]] = p
  <2>1. h \in own
    BY <1>4, <1>5, <1>10
  <2> QED  BY <1>2, <1>4, <2>1
<1>12. \A i \in 1..n : Provider[cards[i]] = p => i \in own
  BY <1>4
<1> HIDE DEF own
<1>13. PICK i \in own : \A j \in own : i <= j
  BY <1>11, LeastExists
<1> DEFINE d == cards[i]
<1>14. \A e \in reporting : left(d) < left(e) \/ (left(d) = left(e) /\ Rank[d] <= Rank[e])
  <2> SUFFICES ASSUME NEW e \in reporting
               PROVE  left(d) < left(e) \/ (left(d) = left(e) /\ Rank[d] <= Rank[e])
    OBVIOUS
  <2>1. PICK j \in 1..n : cards[j] = e
    BY <1>2, <1>5
  <2>2. j \in own /\ i \in 1..n
    BY <1>5, <1>11, <1>12, <1>13, <2>1
  <2>3. i <= j
    BY <1>13, <2>2
  <2> QED  BY <1>2, <2>1, <2>2, <2>3
<1>15. d \in Credential /\ Provider[d] = p
  BY <1>2, <1>11, <1>13
<1>16. d \in reporting
  <2>1. left(d) \in Int /\ left(c) \in Int /\ left(c) < Infinity
    BY <1>1, <1>5, <1>9, <1>15 DEF left
  <2>2. left(d) < Infinity
    BY <1>9, <1>14, <2>1 DEF Infinity
  <2> QED  BY <1>6, <1>15, <2>2
<1>17. worst = {d}
  <2>1. d \in worst
    BY <1>8, <1>14, <1>16
  <2>2. ASSUME NEW x \in worst  PROVE x = d
    <3>1. x \in reporting /\ (left(x) < left(d) \/ (left(x) = left(d) /\ Rank[x] <= Rank[d]))
      BY <1>8, <1>16
    <3>2. left(d) < left(x) \/ (left(d) = left(x) /\ Rank[d] <= Rank[x])
      BY <1>14, <3>1
    <3>3. left(x) \in Int /\ left(d) \in Int /\ Rank[x] \in Int /\ Rank[d] \in Int /\ x \in Credential
      BY <1>5, <1>7, <1>15, <1>16, <3>1
    <3>4. Rank[x] = Rank[d]
      BY <3>1, <3>2, <3>3
    <3> QED  BY <1>15, <3>3, <3>4, CredentialAssumption
  <2> QED  BY <2>1, <2>2
<1> QED  BY <1>13, <1>17 DEF own, cards, worst

\* What does not report has its card after all that do.
LEMMA SilentLast ==
  ASSUME NEW pools, \A c \in Credential : Levels(pools[c].windows)
  PROVE  LET cards == Cards(pools)
         IN  \A i, j \in DOMAIN cards :
               Primary(pools[cards[i]]) = <<>> /\ Primary(pools[cards[j]]) # <<>> => j < i
<1> DEFINE n == Cardinality(Credential)
           cards == Cards(pools)
           left(c) == Remaining(pools[c])
<1>1. \A c \in Credential : /\ left(c) \in Int
                            /\ Primary(pools[c]) = <<>> => left(c) = Infinity
                            /\ Primary(pools[c]) # <<>> => left(c) < Infinity
  BY RemainingIs
<1>2. /\ n \in Nat /\ cards \in [1..n -> Credential]
      /\ \A i, j \in 1..n : i <= j =>
           \/ left(cards[i]) < left(cards[j])
           \/ left(cards[i]) = left(cards[j]) /\ Rank[cards[i]] <= Rank[cards[j]]
  BY <1>1, CardsAre
<1> HIDE DEF n, cards, left
<1> SUFFICES ASSUME NEW i \in DOMAIN cards, NEW j \in DOMAIN cards,
                    Primary(pools[cards[i]]) = <<>>, Primary(pools[cards[j]]) # <<>>
             PROVE  j < i
  BY DEF cards
<1>3. i \in 1..n /\ j \in 1..n /\ cards[i] \in Credential /\ cards[j] \in Credential
  BY <1>2
<1>4. left(cards[i]) = Infinity /\ left(cards[j]) < Infinity /\ left(cards[j]) \in Int
  BY <1>1, <1>3
<1>5. ~(i <= j)
  BY <1>2, <1>3, <1>4 DEF Infinity
<1> QED  BY <1>2, <1>3, <1>5

\* The summary and the cards agree on the worst account of a provider (credential.ts,
\* summarize, and routes/index.tsx, comparators), whatever the reads brought.
THEOREM SummaryFirst == Spec => []WorstFirst
<1>1. TypeOK => WorstFirst
  <2> SUFFICES ASSUME TypeOK, shown  PROVE WorstFirst
    BY DEF WorstFirst
  <2> DEFINE pools == [c \in Credential |-> Quota(c)]
  <2>1. \A c \in Credential : Levels(pools[c].windows)
    BY QuotaLevels
  <2> HIDE DEF pools
  <2>2. \A p \in {Provider[c] : c \in Credential} : Worst(pools, p) # {} =>
          LET cards == Cards(pools)
              own   == {i \in DOMAIN cards : Provider[cards[i]] = p}
          IN  \E i \in own : (\A j \in own : i <= j) /\ Worst(pools, p) = {cards[i]}
    BY <2>1, WorstIsFirst
  <2>3. \A i, j \in DOMAIN Cards(pools) :
          Primary(pools[Cards(pools)[i]]) = <<>> /\ Primary(pools[Cards(pools)[j]]) # <<>> => j < i
    BY <2>1, SilentLast
  <2> QED  BY <2>2, <2>3 DEF WorstFirst, pools
<1> QED  BY <1>1, TypeCorrect, PTL
=============================================================================
