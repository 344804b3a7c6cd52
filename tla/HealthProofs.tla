--------------------------- MODULE HealthProofs ---------------------------
(***************************************************************************)
(* Theorems about Health for every pace of the loops, every number of      *)
(* minutes and every bound: what /healthz shows is new enough, the stalled *)
(* rule fires only when it should, reports in time and ends in time.       *)
(***************************************************************************)
EXTENDS Health, TLAPS

\* The rows a noted error left behind, and the cycle that is between two of the
\* statements that write or delete them.
NotedInv ==
  /\ \A s \in Stage : noted[s] # Never => s \in error /\ errorAt[s] >= noted[s]
  /\ \A s \in Stage : pc[s] = "clearAt" => noted[s] = Never
  /\ \A s \in Stage : pc[s] = "noteAt" => s \in error

-----------------------------------------------------------------------------
(* Type correctness. *)

LEMMA TypeInit == Init => TypeOK
<1> SUFFICES ASSUME Init  PROVE TypeOK
  OBVIOUS
<1>1. now \in 0..MaxTime /\ faults \in 0..MaxFaults /\ crashes \in 0..MaxCrashes
  BY BoundAssumption DEF Init
<1>2. /\ Never \in Never..now /\ 0 \in 0..now /\ 0 \in Nat
      /\ "down" \in PcValues /\ "down" \notin PassPcs
  BY DEF Init, Never, PcValues, PassPcs
<1> QED  BY <1>1, <1>2 DEF Init, TypeOK

\* The four shapes of what a step does to a loop's own variables.
LEMMA GotoType ==
  ASSUME TypeOK, NEW s \in Stage, NEW label \in PcValues, Goto(s, label),
         now' = now, label \in PassPcs => s = "snapshot"
  PROVE  /\ pc' \in [Stage -> PcValues] /\ due' \in [Stage -> Nat]
         /\ at' \in [Stage -> 0..now']
         /\ \A t \in Stage : pc'[t] \in PassPcs => t = "snapshot"
BY DEF TypeOK, Goto

LEMMA AtNowType ==
  ASSUME TypeOK, NEW s \in Stage, NEW label \in PcValues, AtNow(s, label),
         now' = now, label \in PassPcs => s = "snapshot"
  PROVE  /\ pc' \in [Stage -> PcValues] /\ due' \in [Stage -> Nat]
         /\ at' \in [Stage -> 0..now']
         /\ \A t \in Stage : pc'[t] \in PassPcs => t = "snapshot"
BY DEF TypeOK, AtNow

LEMMA EndCycleType ==
  ASSUME TypeOK, NEW s \in Stage, EndCycle(s), now' = now
  PROVE  /\ pc' \in [Stage -> PcValues] /\ due' \in [Stage -> Nat]
         /\ at' \in [Stage -> 0..now']
         /\ \A t \in Stage : pc'[t] \in PassPcs => t = "snapshot"
<1>1. now + Every[s] \in Nat
  BY PaceAssumption DEF TypeOK
<1>2. 0 \in 0..now
  BY DEF TypeOK
<1> QED  BY <1>1, <1>2 DEF TypeOK, EndCycle, PcValues, PassPcs

LEMMA FaultType ==
  ASSUME TypeOK, NEW s \in Stage, Fault(s)
  PROVE  Goto(s, "note") /\ faults' \in 0..MaxFaults /\ faults' = faults + 1
BY BoundAssumption DEF TypeOK, Fault

LEMMA TypeStep == TypeOK /\ [Next]_vars => TypeOK'
<1> SUFFICES ASSUME TypeOK, [Next]_vars  PROVE TypeOK'
  OBVIOUS
<1> USE DEF rows, watch, bounds
<1>a. \A x \in {"note", "noteAt", "store", "clear", "clearAt", "read", "apply", "rest"} :
           x \in PcValues /\ (x \in PassPcs <=> x \in {"read", "apply", "rest"})
  BY DEF PcValues, PassPcs
<1>b. {"pop", "snapshot", "maintain"} = Stage /\ now \in Never..now /\ Never \in Never..now
  BY DEF Stage, TypeOK, Never
<1>1. CASE Tick
  BY <1>1, BoundAssumption DEF Tick, TypeOK, Never
<1>2. ASSUME NEW s \in Stage, StartCycle(s)  PROVE TypeOK'
  <2>1. now + Slow[s] \in Nat
    BY PaceAssumption DEF TypeOK
  <2> QED  BY <1>2, <2>1 DEF StartCycle, TypeOK, PcValues, PassPcs
<1>3. ASSUME NEW s \in Stage, Called(s)  PROVE TypeOK'
  BY <1>3, <1>a, AtNowType DEF Called, TypeOK
<1>4. ASSUME NEW s \in Stage, Unanswered(s)  PROVE TypeOK'
  <2>1. CASE s = "snapshot"
    BY <1>4, <2>1, <1>a, AtNowType DEF Unanswered, TypeOK
  <2>2. CASE s # "snapshot"
    BY <1>4, <2>2, <1>a, GotoType DEF Unanswered, TypeOK
  <2> QED  BY <2>1, <2>2
<1>5. ASSUME NEW s \in Stage, Stored(s)  PROVE TypeOK'
  <2>1. at[s] \in Never..now
    BY DEF TypeOK, Never
  <2>2. lastPop' \in Never..now'
    BY <1>5, <2>1 DEF Stored, TypeOK
  <2> QED  BY <1>5, <1>a, <2>2, GotoType DEF Stored, TypeOK
<1>6. ASSUME NEW s \in Stage, StoreFails(s) \/ ClearFails(s)  PROVE TypeOK'
  BY <1>6, <1>a, FaultType, GotoType DEF StoreFails, ClearFails, TypeOK
<1>7. ASSUME NEW s \in Stage, Clear(s)  PROVE TypeOK'
  <2>1. error' \subseteq Stage /\ noted' \in [Stage -> Never..now']
    BY <1>7, <1>b DEF Clear, TypeOK
  <2> QED  BY <1>7, <1>a, <2>1, GotoType DEF Clear, TypeOK
<1>8. ASSUME NEW s \in Stage, ClearAt(s)  PROVE TypeOK'
  <2>1. errorAt' \in [Stage -> Never..now']
    BY <1>8, <1>b DEF ClearAt, TypeOK
  <2>2. CASE s = "snapshot"
    BY <1>8, <1>a, <2>1, <2>2, GotoType DEF ClearAt, TypeOK
  <2>3. CASE s # "snapshot"
    BY <1>8, <2>1, <2>3, EndCycleType DEF ClearAt, TypeOK
  <2> QED  BY <2>2, <2>3
<1>9. ASSUME NEW s \in Stage, Note(s)  PROVE TypeOK'
  <2>1. error' \subseteq Stage
    BY <1>9 DEF Note, TypeOK
  <2> QED  BY <1>9, <1>a, <2>1, GotoType DEF Note, TypeOK
<1>10. ASSUME NEW s \in Stage, NoteAt(s)  PROVE TypeOK'
  <2>1. errorAt' \in [Stage -> Never..now'] /\ noted' \in [Stage -> Never..now']
    BY <1>10, <1>b DEF NoteAt, TypeOK
  <2> QED  BY <1>10, <2>1, EndCycleType DEF NoteAt, TypeOK
<1>11. ASSUME NEW s \in Stage, NoteFails(s)  PROVE TypeOK'
  <2>1. faults' \in 0..MaxFaults
    BY <1>11, BoundAssumption DEF NoteFails, TypeOK
  <2> QED  BY <1>11, <2>1, EndCycleType DEF NoteFails, TypeOK
<1>12. CASE ReadCollector \/ Apply
  <2>1. stalled' \in BOOLEAN /\ seen' \in Never..now
    <3>1. CASE ReadCollector
      BY <3>1 DEF ReadCollector, TypeOK
    <3>2. CASE Apply
      <4>1. stalled' \in BOOLEAN
        BY <3>2 DEF Apply
      <4>2. seen' \in Never..now
        BY <3>2 DEF Apply, TypeOK
      <4> QED  BY <4>1, <4>2
    <3> QED  BY <1>12, <3>1, <3>2
  <2>2. now' = now /\ \E label \in PcValues : Goto("snapshot", label)
    BY <1>12, <1>a DEF ReadCollector, Apply
  <2>3. /\ pc' \in [Stage -> PcValues] /\ due' \in [Stage -> Nat] /\ at' \in [Stage -> 0..now']
        /\ \A t \in Stage : pc'[t] \in PassPcs => t = "snapshot"
    BY <1>b, <2>2, GotoType
  <2> QED  BY <1>12, <2>1, <2>3 DEF ReadCollector, Apply, TypeOK
<1>13. CASE EndPass
  <2>1. CASE outage
    BY <1>13, <1>a, <1>b, <2>1, GotoType DEF EndPass, Forget, TypeOK
  <2>2. CASE ~outage
    BY <1>13, <1>b, <2>2, EndCycleType DEF EndPass, Forget, TypeOK
  <2> QED  BY <2>1, <2>2
<1>17. CASE PassFails
  BY <1>17, <1>a, <1>b, FaultType, GotoType DEF PassFails, Forget, TypeOK
<1>14. CASE Die
  <2>1. crashes' \in 0..MaxCrashes
    BY <1>14, BoundAssumption DEF Die, TypeOK
  <2>2. pc' \in [Stage -> PcValues] /\ \A s \in Stage : pc'[s] \notin PassPcs
    BY <1>14 DEF Die, PcValues, PassPcs
  <2>3. due' \in [Stage -> Nat] /\ at' \in [Stage -> 0..now'] /\ now' = now
    BY <1>14 DEF Die, TypeOK
  <2>4. outage' \in BOOLEAN /\ seen' \in Never..now
    BY <1>14, <1>b DEF Die, Forget
  <2> QED  BY <1>14, <2>1, <2>2, <2>3, <2>4 DEF Die, Forget, TypeOK
<1>15. CASE Start
  BY <1>15, <1>b DEF Start, TypeOK, PcValues, PassPcs
<1>16. CASE UNCHANGED vars
  BY <1>16 DEF vars, TypeOK
<1> QED
  BY <1>1, <1>2, <1>3, <1>4, <1>5, <1>6, <1>7, <1>8, <1>9, <1>10, <1>11, <1>12,
     <1>13, <1>14, <1>15, <1>16, <1>17 DEF Next

\* Type correctness holds in every reachable state.
THEOREM HealthTypeCorrect == Spec => []TypeOK
BY TypeInit, TypeStep, PTL DEF Spec

-----------------------------------------------------------------------------
(* The error shown. *)

LEMMA NotedInit == Init => NotedInv
BY DEF Init, NotedInv

LEMMA NotedStep == TypeOK /\ NotedInv /\ [Next]_vars => NotedInv'
<1> SUFFICES ASSUME TypeOK, NotedInv, [Next]_vars  PROVE NotedInv'
  OBVIOUS
<1> USE DEF rows, watch, bounds, NotedInv
<1>1. CASE Tick
  BY <1>1 DEF Tick
<1>2. ASSUME NEW s \in Stage,
             \/ StartCycle(s) \/ Called(s) \/ Unanswered(s)
             \/ Stored(s) \/ StoreFails(s) \/ ClearFails(s) \/ NoteFails(s)
      PROVE  NotedInv'
  <2>1. /\ UNCHANGED <<error, errorAt, noted>>
        /\ \A t \in Stage : pc'[t] \in {"clearAt", "noteAt"} => pc'[t] = pc[t]
    BY <1>2 DEF StartCycle, Called, Unanswered, Stored, StoreFails, ClearFails,
                NoteFails, Goto, AtNow, EndCycle, Fault, TypeOK
  <2> QED  BY <2>1
<1>3. ASSUME NEW s \in Stage, Clear(s)  PROVE NotedInv'
  BY <1>3 DEF Clear, Goto, TypeOK
<1>4. ASSUME NEW s \in Stage, ClearAt(s)  PROVE NotedInv'
  <2>1. \A t \in Stage : pc'[t] \in {"clearAt", "noteAt"} => pc'[t] = pc[t]
    BY <1>4 DEF ClearAt, Goto, EndCycle, TypeOK
  <2>2. noted[s] = Never /\ UNCHANGED <<error, noted>>
        /\ \A t \in Stage \ {s} : errorAt'[t] = errorAt[t]
    BY <1>4 DEF ClearAt, TypeOK
  <2> QED  BY <2>1, <2>2
<1>5. ASSUME NEW s \in Stage, Note(s)  PROVE NotedInv'
  BY <1>5 DEF Note, Goto, TypeOK
<1>6. ASSUME NEW s \in Stage, NoteAt(s)  PROVE NotedInv'
  <2>1. \A t \in Stage : pc'[t] \in {"clearAt", "noteAt"} => pc'[t] = pc[t] /\ t # s
    BY <1>6 DEF NoteAt, EndCycle, TypeOK
  <2>2. /\ noted'[s] = now /\ errorAt'[s] = now /\ s \in error /\ error' = error
        /\ \A t \in Stage \ {s} : noted'[t] = noted[t] /\ errorAt'[t] = errorAt[t]
    BY <1>6 DEF NoteAt, TypeOK
  <2>3. now \in Int
    BY DEF TypeOK
  <2> QED  BY <2>1, <2>2, <2>3
<1>7. CASE ReadCollector \/ Apply \/ EndPass \/ PassFails
  <2>1. /\ UNCHANGED <<error, errorAt, noted>>
        /\ \A t \in Stage : pc'[t] \in {"clearAt", "noteAt"} => pc'[t] = pc[t]
    BY <1>7 DEF ReadCollector, Apply, EndPass, PassFails, Goto, EndCycle, Fault, TypeOK
  <2> QED  BY <2>1
<1>8. CASE Die \/ Start
  BY <1>8 DEF Die, Start
<1>9. CASE UNCHANGED vars
  BY <1>9 DEF vars
<1> QED  BY <1>1, <1>2, <1>3, <1>4, <1>5, <1>6, <1>7, <1>8, <1>9 DEF Next

\* Among the error rows there is always one that is shown: none is newer.
LEMMA SomeShown ==
  ASSUME TypeOK, NEW s \in error
  PROVE  \E t \in Shown : errorAt[t] >= errorAt[s]
<1>1. /\ errorAt["pop"] \in Int /\ errorAt["snapshot"] \in Int /\ errorAt["maintain"] \in Int
      /\ error \subseteq {"pop", "snapshot", "maintain"}
  BY DEF TypeOK, Stage, Never
<1>2. \E t \in error : \A u \in error : errorAt[t] >= errorAt[u]
  BY <1>1
<1> QED  BY <1>2 DEF Shown

\* collector.ts:32: no loop hides another's failure on /healthz.
THEOREM NewestErrorIsShown == Spec => []NewestErrorShown
<1>1. TypeOK /\ NotedInv => NewestErrorShown
  <2> SUFFICES ASSUME TypeOK, NotedInv, NEW s \in Stage, noted[s] # Never
               PROVE  \E t \in Shown : errorAt[t] >= noted[s]
    BY DEF NewestErrorShown
  <2>1. s \in error /\ errorAt[s] >= noted[s]
    BY DEF NotedInv
  <2>2. PICK t \in Shown : errorAt[t] >= errorAt[s]
    BY <2>1, SomeShown
  <2>3. t \in Stage /\ errorAt[t] \in Int /\ errorAt[s] \in Int /\ noted[s] \in Int
    BY DEF Shown, TypeOK, Never
  <2> QED  BY <2>1, <2>2, <2>3
<1> QED  BY <1>1, TypeInit, TypeStep, NotedInit, NotedStep, PTL DEF Spec

-----------------------------------------------------------------------------
(* The stalled rule does not fire early. *)

LEMMA LaterIs ==
  ASSUME NEW s \in Int, NEW t \in Int
  PROVE  Later(s, t) \in Int /\ Later(s, t) >= s /\ Later(s, t) >= t /\ Later(s, t) \in {s, t}
BY DEF Later

\* evaluate.ts:44: the rule starts to fire only for a process that had its minutes,
\* and with a lag near zero only when a pop was stored between run.ts:27, where the
\* pass read the collector's state, and run.ts:46, where it writes the rule's.
THEOREM StallFiresOnlyOverdue == Spec => FiresOnlyOverdue
<1> DEFINE Overdrawn == now - started > Minutes /\ (Lag > Minutes \/ lastPop > seen)
<1>1. TypeOK /\ [Next]_vars => (~stalled /\ stalled' => Overdrawn)
  <2> SUFFICES ASSUME TypeOK, [Next]_vars, ~stalled, stalled'
               PROVE  Overdrawn
    OBVIOUS
  <2>1. Apply
    <3>1. ASSUME NEW s \in Stage,
                 \/ StartCycle(s) \/ Called(s) \/ Unanswered(s) \/ Stored(s) \/ StoreFails(s)
                 \/ Clear(s) \/ ClearAt(s) \/ ClearFails(s) \/ Note(s) \/ NoteAt(s) \/ NoteFails(s)
          PROVE  stalled' = stalled
      BY <3>1 DEF StartCycle, Called, Unanswered, Stored, StoreFails, Clear, ClearAt,
                  ClearFails, Note, NoteAt, NoteFails, rows
    <3>2. Tick \/ ReadCollector \/ EndPass \/ PassFails \/ Die \/ Start \/ UNCHANGED vars => stalled' = stalled
      BY DEF Tick, ReadCollector, EndPass, PassFails, Die, Start, vars, rows
    <3> QED  BY <3>1, <3>2 DEF Next
  <2>2. at["snapshot"] - Later(seen, started) > Minutes
    BY <2>1 DEF Apply, Anchor
  <2>3. /\ now \in 0..MaxTime /\ at["snapshot"] \in 0..now
        /\ lastPop \in Never..now /\ seen \in Never..now /\ started \in Never..now
    BY DEF TypeOK, Stage
  <2>4. Later(seen, started) \in Int /\ Later(seen, started) >= seen
        /\ Later(seen, started) >= started
    <3>1. seen \in Int /\ started \in Int
      BY <2>3 DEF Never
    <3> QED  BY <3>1, LaterIs
  <2> QED  BY <2>2, <2>3, <2>4, MinutesAssumption, BoundAssumption DEF Lag, Never
<1> QED  BY <1>1, TypeInit, TypeStep, PTL DEF Spec, FiresOnlyOverdue

-----------------------------------------------------------------------------
(* The stalled rule reports in time, and no alarm outlives its reason. *)

\* What a cycle that failed on a statement costs.
Cost == faults * (Every["snapshot"] + Slow["snapshot"])

\* The statements of a cycle that has its time.
Working == {"store", "clear", "clearAt", "read", "apply", "rest"}

\* No loop is late; a cycle's time is not older than it may take; last_pop_at
\* moves forward.
PaceInv ==
  /\ \A s \in Stage : pc[s] # "down" => now <= due[s]
  /\ \A s \in Stage : pc[s] \notin {"down", "wait"} => due[s] <= now + Slow[s]
  /\ \A s \in Stage : pc[s] \in Working /\ s = "snapshot" => due[s] <= at[s] + Slow[s]
  /\ pc["pop"] = "store" => lastPop <= at["pop"]

\* How far past b the running or the next snapshot may end when b is the last
\* moment the rule's state was right: a whole cycle more before the rule is
\* applied than after it.
Near(p, d, b) ==
  LET e == Every["snapshot"]  w == Slow["snapshot"]
  IN  /\ p = "wait" => d - b <= w + e
      /\ p \in {"call", "store", "clear", "clearAt", "read", "apply"} => d - b <= w + e + w
      /\ p \in {"rest", "note", "noteAt"} => d - b <= w

\* While the rule does not fire its minutes were not over long ago, and while it
\* fires they were.
ReportInv == ~stalled => Near(pc["snapshot"], due["snapshot"], Since + Minutes + Cost)
AlarmInv  == stalled => Near(pc["snapshot"], due["snapshot"], Later(overdueAt, started) + Cost)

\* overdueAt keeps up with the clock, and with what the pass has read.
WatchInv ==
  /\ pc["snapshot"] # "down" /\ Overdue(now) => overdueAt = now
  /\ pc["snapshot"] = "apply" => seen <= lastPop
  /\ pc["snapshot"] = "apply" /\ at["snapshot"] - Anchor(seen) > Minutes
       => overdueAt >= at["snapshot"]

LEMMA Numbers ==
  ASSUME TypeOK
  PROVE  /\ now \in Nat /\ lastPop \in Int /\ started \in Int /\ lastPop <= now /\ started <= now
         /\ seen \in Int /\ overdueAt \in Int /\ overdueAt <= now
         /\ \A s \in Stage : due[s] \in Nat /\ at[s] \in Nat /\ at[s] <= now
         /\ \A s \in Stage : Every[s] \in Nat /\ Slow[s] \in Nat
         /\ Since \in Int /\ lastPop <= Since /\ started <= Since
         /\ Cost \in Nat /\ Minutes \in Nat
         /\ "snapshot" \in Stage /\ "pop" \in Stage
<1>1. /\ now \in Nat /\ lastPop \in Int /\ started \in Int /\ lastPop <= now /\ started <= now
      /\ seen \in Int /\ overdueAt \in Int /\ overdueAt <= now
  BY DEF TypeOK, Never
<1>2. \A s \in Stage : due[s] \in Nat /\ at[s] \in Nat /\ at[s] <= now
  BY <1>1 DEF TypeOK
<1>3. \A s \in Stage : Every[s] \in Nat /\ Slow[s] \in Nat
  BY PaceAssumption
<1>4. "snapshot" \in Stage /\ "pop" \in Stage
  BY DEF Stage
<1>5. Since \in Int /\ lastPop <= Since /\ started <= Since
  BY <1>1, LaterIs DEF Since
<1>6. Cost \in Nat
  <2>1. faults \in Nat /\ Every["snapshot"] + Slow["snapshot"] \in Nat
    BY <1>3, <1>4, BoundAssumption DEF TypeOK
  <2> QED  BY <2>1 DEF Cost
<1> QED  BY <1>1, <1>2, <1>3, <1>4, <1>5, <1>6, MinutesAssumption

LEMMA OneMore ==
  ASSUME NEW m \in Int, NEW n \in Int
  PROVE  (m + 1) * n = m * n + n /\ m * n \in Int
OBVIOUS

LEMMA Order ==
  ASSUME NEW x \in Int, NEW y \in Int, NEW m \in Nat, y >= x
  PROVE  /\ x + m \in Int /\ y + m \in Int /\ y + m >= x + m
         /\ \A t \in Int : t - y > m => t - x > m
OBVIOUS

\* A failed statement costs a whole cycle.
LEMMA CostStep ==
  ASSUME TypeOK
  PROVE  /\ faults' = faults => Cost' = Cost
         /\ faults' = faults + 1 => Cost' = Cost + Every["snapshot"] + Slow["snapshot"]
<1>1. faults \in Int /\ Every["snapshot"] \in Int /\ Slow["snapshot"] \in Int
  BY PaceAssumption, BoundAssumption DEF TypeOK, Stage
<1> DEFINE k == Every["snapshot"] + Slow["snapshot"]
<1>2. k \in Int
  BY <1>1
<1>3. (faults + 1) * k = faults * k + k /\ faults * k \in Int
  <2> HIDE DEF k
  <2> QED  BY <1>1, <1>2, OneMore
<1>4. faults * k + k = faults * k + Every["snapshot"] + Slow["snapshot"]
  BY <1>1, <1>3
<1> QED  BY <1>3, <1>4 DEF Cost

LEMMA PaceInit == Init => PaceInv /\ ReportInv /\ AlarmInv /\ WatchInv
BY DEF Init, PaceInv, ReportInv, AlarmInv, WatchInv, Near, Working, Stage

LEMMA PaceStep == TypeOK /\ PaceInv /\ [Next]_vars => PaceInv'
<1> SUFFICES ASSUME TypeOK, PaceInv, [Next]_vars  PROVE PaceInv'
  OBVIOUS
<1> USE DEF rows, watch, bounds, PaceInv, Working
<1>n. /\ now \in Nat /\ lastPop \in Int /\ lastPop <= now
      /\ \A s \in Stage : due[s] \in Nat /\ at[s] \in Nat
      /\ \A s \in Stage : Every[s] \in Nat /\ Slow[s] \in Nat
      /\ "snapshot" \in Stage /\ "pop" \in Stage
  BY Numbers
<1>t. pc \in [Stage -> PcValues] /\ due \in [Stage -> Nat] /\ at \in [Stage -> 0..now]
  BY DEF TypeOK
\* What moving to another statement keeps, whatever the statement.
<1>goto. ASSUME NEW s \in Stage, NEW label, Goto(s, label), now' = now, lastPop' = lastPop,
                pc[s] \notin {"down", "wait"}, label # "store",
                label \in {"note", "noteAt"} \/ pc[s] \in Working
         PROVE  PaceInv'
  <2>1. /\ due' = due /\ at' = at /\ pc'[s] = label
        /\ \A t \in Stage \ {s} : pc'[t] = pc[t]
    BY <1>goto, <1>t DEF Goto
  <2> QED  BY <1>goto, <1>n, <2>1
<1>end. ASSUME NEW s \in Stage, EndCycle(s), now' = now, lastPop' = lastPop
        PROVE  PaceInv'
  <2>1. /\ due'[s] = now + Every[s] /\ pc'[s] = "wait"
        /\ \A t \in Stage \ {s} : pc'[t] = pc[t] /\ due'[t] = due[t] /\ at'[t] = at[t]
    BY <1>end, <1>t DEF EndCycle
  <2> QED  BY <1>end, <1>n, <2>1
<1>atnow. ASSUME NEW s \in Stage, NEW label, AtNow(s, label), now' = now, lastPop' = lastPop,
                 pc[s] = "call"
          PROVE  PaceInv'
  <2>1. /\ due' = due /\ at'[s] = now
        /\ \A t \in Stage \ {s} : pc'[t] = pc[t] /\ at'[t] = at[t]
    BY <1>atnow, <1>t DEF AtNow
  <2> QED  BY <1>atnow, <1>n, <2>1
<1>1. CASE Tick
  <2>1. now' = now + 1 /\ UNCHANGED <<pc, due, at, lastPop>>
    BY <1>1 DEF Tick
  <2>2. \A s \in Stage : pc[s] # "down" => now + 1 <= due[s]
    BY <1>1, <1>n DEF Tick
  <2> QED  BY <1>n, <2>1, <2>2
<1>2. ASSUME NEW s \in Stage, StartCycle(s)  PROVE PaceInv'
  <2>1. /\ due'[s] = now + Slow[s] /\ pc'[s] = "call" /\ UNCHANGED <<now, at, lastPop>>
        /\ \A t \in Stage \ {s} : pc'[t] = pc[t] /\ due'[t] = due[t]
    BY <1>2, <1>t DEF StartCycle
  <2> QED  BY <1>n, <2>1
<1>3. ASSUME NEW s \in Stage, Called(s)  PROVE PaceInv'
  BY <1>3, <1>atnow DEF Called
<1>4. ASSUME NEW s \in Stage, Unanswered(s)  PROVE PaceInv'
  BY <1>4, <1>atnow, <1>goto DEF Unanswered
<1>5. ASSUME NEW s \in Stage, Stored(s)  PROVE PaceInv'
  <2>1. /\ due' = due /\ at' = at /\ now' = now /\ pc'[s] = "clear" /\ pc[s] = "store"
        /\ \A t \in Stage \ {s} : pc'[t] = pc[t]
        /\ s # "pop" => lastPop' = lastPop
    BY <1>5, <1>t DEF Stored, Goto
  <2> QED  BY <1>n, <2>1
<1>6. ASSUME NEW s \in Stage, StoreFails(s) \/ ClearFails(s)  PROVE PaceInv'
  BY <1>6, <1>goto DEF StoreFails, ClearFails, Fault
<1>7. ASSUME NEW s \in Stage, Clear(s) \/ ClearAt(s)  PROVE PaceInv'
  BY <1>7, <1>goto, <1>end DEF Clear, ClearAt
<1>8. ASSUME NEW s \in Stage, Note(s) \/ NoteAt(s) \/ NoteFails(s)  PROVE PaceInv'
  BY <1>8, <1>goto, <1>end DEF Note, NoteAt, NoteFails
<1>9. CASE ReadCollector \/ Apply
  BY <1>9, <1>n, <1>goto DEF ReadCollector, Apply
<1>12. CASE EndPass \/ PassFails
  BY <1>12, <1>n, <1>goto, <1>end DEF EndPass, PassFails, Fault, PassPcs
<1>10. CASE Die \/ Start
  <2>1. CASE Die
    BY <2>1, <1>n DEF Die
  <2>2. CASE Start
    BY <2>2, <1>n DEF Start
  <2> QED  BY <1>10, <2>1, <2>2
<1>11. CASE UNCHANGED vars
  BY <1>11 DEF vars
<1> QED
  BY <1>1, <1>2, <1>3, <1>4, <1>5, <1>6, <1>7, <1>8, <1>9, <1>10, <1>11, <1>12 DEF Next

\* Every step but the two that decide anew brings the snapshot loop at most a
\* statement, a wait or a failed cycle further from b.
LEMMA NearStep ==
  ASSUME TypeOK, PaceInv, [Next]_vars, ~Apply, ~Start, NEW b \in Int, NEW c \in Int, c >= b,
         Near(pc["snapshot"], due["snapshot"], b + Cost)
  PROVE  Near(pc'["snapshot"], due'["snapshot"], c + Cost')
<1> USE DEF rows, watch, bounds
<1> DEFINE sn == "snapshot"
<1> DEFINE Before == {"call", "store", "clear", "clearAt", "read", "apply"}
<1>n. /\ now \in Nat /\ due[sn] \in Nat /\ Every[sn] \in Nat /\ Slow[sn] \in Nat
      /\ Cost \in Nat /\ sn \in Stage
  BY Numbers
<1>t. pc \in [Stage -> PcValues] /\ due \in [Stage -> Nat]
  BY DEF TypeOK
<1>p. /\ pc[sn] # "down" => now <= due[sn]
      /\ pc[sn] \notin {"down", "wait"} => due[sn] <= now + Slow[sn]
  BY <1>n DEF PaceInv
<1>c. /\ faults' = faults => Cost' = Cost
      /\ faults' = faults + 1 => Cost' = Cost + Every[sn] + Slow[sn]
  BY CostStep
\* The loop stands still, or goes on within a half of its cycle.
<1>same. ASSUME due'[sn] = due[sn], Cost' \in Nat, Cost' >= Cost,
                \/ pc'[sn] = pc[sn]
                \/ pc[sn] \in Before /\ pc'[sn] \in Before
                \/ pc[sn] \in {"rest", "note"} /\ pc'[sn] \in {"note", "noteAt"}
         PROVE  Near(pc'[sn], due'[sn], c + Cost')
  BY <1>same, <1>n DEF Near
\* A statement fails.
<1>fault. ASSUME Fault(sn), pc[sn] \in Before \union {"rest"}
          PROVE  Near(pc'[sn], due'[sn], c + Cost')
  <2>1. due' = due /\ pc'[sn] = "note" /\ faults' = faults + 1
    BY <1>fault, <1>t, <1>n DEF Fault, Goto
  <2>2. Cost' = Cost + Every[sn] + Slow[sn]
    BY <1>c, <2>1
  <2> QED  BY <1>fault, <1>n, <2>1, <2>2 DEF Near
\* The cycle ends: the next one is a wait away.
<1>end. ASSUME EndCycle(sn), pc[sn] \in {"rest", "note", "noteAt"}, Cost' \in Nat, Cost' >= Cost
        PROVE  Near(pc'[sn], due'[sn], c + Cost')
  <2>1. due'[sn] = now + Every[sn] /\ pc'[sn] = "wait"
    BY <1>end, <1>t, <1>n DEF EndCycle
  <2>2. now <= due[sn]
    BY <1>end, <1>p
  <2> QED  BY <1>end, <1>n, <2>1, <2>2 DEF Near
<1>0. faults' = faults \/ faults' = faults + 1 => Cost' \in Nat /\ Cost' >= Cost
  BY <1>n, <1>c
<1>1. ASSUME NEW s \in Stage, s # sn,
             \/ StartCycle(s) \/ Called(s) \/ Unanswered(s) \/ Stored(s) \/ StoreFails(s)
             \/ Clear(s) \/ ClearAt(s) \/ ClearFails(s) \/ Note(s) \/ NoteAt(s) \/ NoteFails(s)
      PROVE  Near(pc'[sn], due'[sn], c + Cost')
  <2>1. pc'[sn] = pc[sn] /\ due'[sn] = due[sn]
    BY <1>1, <1>t, <1>n DEF StartCycle, Called, Unanswered, Stored, StoreFails, Clear, ClearAt,
       ClearFails, Note, NoteAt, NoteFails, Goto, AtNow, EndCycle, Fault
  <2>2. faults' = faults \/ faults' = faults + 1
    BY <1>1 DEF StartCycle, Called, Unanswered, Stored, StoreFails, Clear, ClearAt,
       ClearFails, Note, NoteAt, NoteFails, Fault
  <2> QED  BY <1>same, <1>0, <2>1, <2>2
<1>2. CASE Tick \/ UNCHANGED vars
  <2>1. UNCHANGED <<pc, due, faults>>
    BY <1>2 DEF Tick, vars
  <2> QED  BY <1>same, <1>0, <2>1
<1>3. CASE Die
  BY <1>3, <1>n DEF Die, Near
<1>4. CASE StartCycle(sn)
  <2>1. /\ due'[sn] = now + Slow[sn] /\ pc'[sn] = "call" /\ pc[sn] = "wait" /\ now = due[sn]
        /\ faults' = faults
    BY <1>4, <1>t, <1>n DEF StartCycle
  <2> QED  BY <1>n, <1>c, <2>1 DEF Near
<1>5. CASE Called(sn) \/ Unanswered(sn)
  <2>1. due' = due /\ faults' = faults /\ pc[sn] = "call" /\ pc'[sn] \in {"store", "read"}
    BY <1>5, <1>t, <1>n DEF Called, Unanswered, AtNow
  <2> QED  BY <1>same, <1>0, <2>1
<1>6. CASE Stored(sn) \/ Clear(sn) \/ ClearAt(sn) \/ ReadCollector
  <2>1. due' = due /\ faults' = faults /\ pc[sn] \in Before /\ pc'[sn] \in Before
    BY <1>6, <1>t, <1>n DEF Stored, Clear, ClearAt, ReadCollector, Goto
  <2> QED  BY <1>same, <1>0, <2>1
<1>7. CASE StoreFails(sn) \/ ClearFails(sn) \/ PassFails
  BY <1>7, <1>fault DEF StoreFails, ClearFails, PassFails, PassPcs
<1>8. CASE Note(sn)
  <2>1. due' = due /\ pc'[sn] = "noteAt" /\ pc[sn] = "note" /\ faults' = faults
    BY <1>8, <1>t, <1>n DEF Note, Goto
  <2> QED  BY <1>same, <1>0, <2>1
<1>9. CASE NoteAt(sn) \/ NoteFails(sn)
  BY <1>9, <1>end, <1>0 DEF NoteAt, NoteFails
<1>10. CASE EndPass
  <2>1. CASE outage
    <3>1. due' = due /\ pc'[sn] = "note" /\ pc[sn] = "rest" /\ faults' = faults
      BY <1>10, <1>t, <1>n, <2>1 DEF EndPass, Goto
    <3> QED  BY <1>same, <1>0, <3>1
  <2>2. CASE ~outage
    BY <1>10, <1>end, <1>0, <2>2 DEF EndPass
  <2> QED  BY <2>1, <2>2
<1> QED
  BY <1>1, <1>2, <1>3, <1>4, <1>5, <1>6, <1>7, <1>8, <1>9, <1>10 DEF Next

\* The last sign of life and the last overdue moment only move forward.
LEMMA Forward ==
  ASSUME TypeOK, PaceInv, [Next]_vars
  PROVE  /\ Since' \in Int /\ Since' >= Since /\ lastPop' \in Int /\ lastPop' >= lastPop
         /\ overdueAt' \in Int /\ overdueAt' >= overdueAt
         /\ ~Start => started' = started
         /\ ~Tick => UNCHANGED <<now, overdueAt>>
         /\ ~Apply => stalled' = stalled
<1> USE DEF rows, watch, bounds
<1>n. /\ now \in Nat /\ lastPop \in Int /\ started \in Int /\ lastPop <= now /\ started <= now
      /\ overdueAt \in Int /\ overdueAt <= now /\ at["pop"] \in Nat
  BY Numbers
<1>1. /\ started' = started \/ started' = now
      /\ lastPop' = lastPop \/ (lastPop' = at["pop"] /\ lastPop <= at["pop"])
      /\ overdueAt' = overdueAt \/ overdueAt' = now + 1
      /\ ~Start => started' = started
      /\ ~Tick => UNCHANGED <<now, overdueAt>>
      /\ ~Apply => stalled' = stalled
  <2>1. ASSUME NEW s \in Stage,
               \/ StartCycle(s) \/ Called(s) \/ Unanswered(s) \/ Stored(s) \/ StoreFails(s)
               \/ Clear(s) \/ ClearAt(s) \/ ClearFails(s) \/ Note(s) \/ NoteAt(s) \/ NoteFails(s)
        PROVE  /\ UNCHANGED <<now, started, overdueAt, stalled>>
               /\ lastPop' = lastPop \/ (lastPop' = at["pop"] /\ lastPop <= at["pop"])
    BY <2>1 DEF StartCycle, Called, Unanswered, Stored, StoreFails, Clear, ClearAt,
       ClearFails, Note, NoteAt, NoteFails, PaceInv
  <2>2. CASE Tick
    BY <2>2 DEF Tick
  <2>3. CASE ReadCollector \/ Apply \/ EndPass \/ PassFails \/ Die \/ Start \/ UNCHANGED vars
    BY <2>3 DEF ReadCollector, Apply, EndPass, PassFails, Die, Start, Forget, vars
  <2> QED  BY <2>1, <2>2, <2>3 DEF Next
<1> QED  BY <1>n, <1>1 DEF Since, Later

LEMMA WatchStep == TypeOK /\ PaceInv /\ WatchInv /\ [Next]_vars => WatchInv'
<1> SUFFICES ASSUME TypeOK, PaceInv, WatchInv, [Next]_vars  PROVE WatchInv'
  OBVIOUS
<1> USE DEF rows, watch, bounds
<1> DEFINE sn == "snapshot"
<1>n. /\ now \in Nat /\ started \in Int /\ lastPop \in Int /\ Since \in Int /\ Minutes \in Nat
      /\ at[sn] \in Nat /\ at[sn] <= now /\ sn \in Stage /\ seen \in Int
  BY Numbers
<1>t. pc \in [Stage -> PcValues] /\ at \in [Stage -> 0..now]
  BY DEF TypeOK
<1>f. /\ Since' \in Int /\ Since' >= Since /\ lastPop' \in Int /\ lastPop' >= lastPop
      /\ overdueAt' \in Int /\ overdueAt' >= overdueAt
  BY Forward
\* A step that lets the clock and the pass's variables be.
<1>keep. ASSUME UNCHANGED <<now, started, overdueAt>>, pc'[sn] # "down" => pc[sn] # "down",
                pc'[sn] = "apply" => pc[sn] = "apply" /\ at'[sn] = at[sn] /\ seen' = seen
         PROVE  WatchInv'
  <2>1. Overdue(now)' => Overdue(now)
    <3>1. \A t \in Int : t - Since' > Minutes => t - Since > Minutes
      BY <1>n, <1>f, Order
    <3>2. Overdue(now)' => now - Since' > Minutes
      BY <1>keep DEF Overdue
    <3> QED  BY <1>n, <3>1, <3>2 DEF Overdue
  <2>2. pc'[sn] = "apply" => Anchor(seen)' = Anchor(seen)
    BY <1>keep DEF Anchor, Later
  <2> QED  BY <1>keep, <1>n, <1>f, <2>1, <2>2 DEF WatchInv
<1>1. CASE Tick
  <2>1. /\ now' = now + 1 /\ UNCHANGED <<pc, at, seen, started, lastPop>>
        /\ overdueAt' = IF Overdue(now') THEN now' ELSE overdueAt
    BY <1>1 DEF Tick
  <2>2. Overdue(now)' = Overdue(now')
    BY <2>1 DEF Overdue, Since, Later
  <2>3. Anchor(seen)' = Anchor(seen)
    BY <2>1 DEF Anchor, Later
  <2>4. overdueAt' >= overdueAt /\ overdueAt \in Int /\ overdueAt' \in Int
    BY <1>f, Numbers
  <2> QED  BY <1>n, <2>1, <2>2, <2>3, <2>4 DEF WatchInv
<1>2. CASE Start
  <2>1. started' = now /\ lastPop' = lastPop /\ now' = now /\ pc'[sn] = "wait"
    BY <1>2, <1>n DEF Start
  <2>2. ~Overdue(now)'
    BY <1>n, <2>1 DEF Overdue, Since, Later
  <2> QED  BY <2>1, <2>2 DEF WatchInv
<1>3. CASE ReadCollector
  <2>1. /\ seen' = lastPop /\ UNCHANGED <<now, started, lastPop, overdueAt, at>>
        /\ pc[sn] = "read" /\ pc'[sn] = "apply"
    BY <1>3, <1>t, <1>n DEF ReadCollector, Goto
  <2>2. Since' = Since /\ Anchor(seen)' = Since
    BY <2>1 DEF Since, Anchor, Later
  <2>3. Overdue(now)' => Overdue(now)
    BY <2>1, <2>2 DEF Overdue
  <2>4. at[sn] - Since > Minutes => Overdue(now)
    BY <1>n DEF Overdue
  <2> QED  BY <1>n, <2>1, <2>2, <2>3, <2>4 DEF WatchInv
<1>4. CASE Apply \/ EndPass \/ PassFails \/ Die \/ UNCHANGED vars
  <2>1. UNCHANGED <<now, started, overdueAt>>
    BY <1>4 DEF Apply, EndPass, PassFails, Die, Forget, vars
  <2>2. /\ pc'[sn] # "down" => pc[sn] # "down"
        /\ pc'[sn] = "apply" => pc[sn] = "apply" /\ at'[sn] = at[sn] /\ seen' = seen
    BY <1>4, <1>t, <1>n DEF Apply, EndPass, PassFails, Fault, Goto, EndCycle, Die, PassPcs, vars
  <2> QED  BY <1>keep, <2>1, <2>2
\* No other step sends the snapshot loop to apply.
<1>5. ASSUME NEW s \in Stage,
             \/ StartCycle(s) \/ Called(s) \/ Unanswered(s) \/ Stored(s) \/ StoreFails(s)
             \/ Clear(s) \/ ClearAt(s) \/ ClearFails(s) \/ Note(s) \/ NoteAt(s) \/ NoteFails(s)
      PROVE  WatchInv'
  <2>1. UNCHANGED <<now, started, overdueAt, seen>>
    BY <1>5 DEF StartCycle, Called, Unanswered, Stored, StoreFails, Clear, ClearAt, ClearFails,
       Note, NoteAt, NoteFails
  <2>2. pc[s] # "down" /\ pc'[s] # "apply"
    BY <1>5, <1>t DEF StartCycle, Called, Unanswered, Stored, StoreFails, Clear, ClearAt, ClearFails,
       Note, NoteAt, NoteFails, Goto, AtNow, EndCycle, Fault
  <2>3. s # sn => pc'[sn] = pc[sn] /\ at'[sn] = at[sn]
    BY <1>5, <1>t, <1>n DEF StartCycle, Called, Unanswered, Stored, StoreFails, Clear, ClearAt, ClearFails,
       Note, NoteAt, NoteFails, Goto, AtNow, EndCycle, Fault
  <2> QED  BY <1>keep, <2>1, <2>2, <2>3
<1> QED  BY <1>1, <1>2, <1>3, <1>4, <1>5 DEF Next

LEMMA ReportStep == TypeOK /\ PaceInv /\ ReportInv /\ WatchInv /\ [Next]_vars => ReportInv'
<1> SUFFICES ASSUME TypeOK, PaceInv, ReportInv, WatchInv, [Next]_vars  PROVE ReportInv'
  OBVIOUS
<1> USE DEF rows, watch, bounds
<1> DEFINE sn == "snapshot"
<1>n. /\ now \in Nat /\ due[sn] \in Nat /\ at[sn] \in Nat /\ Every[sn] \in Nat /\ Slow[sn] \in Nat
      /\ started \in Int /\ lastPop \in Int /\ lastPop <= now /\ started <= now /\ seen \in Int
      /\ Since \in Int /\ Cost \in Nat /\ Minutes \in Nat /\ sn \in Stage
  BY Numbers
<1>t. pc \in [Stage -> PcValues] /\ due \in [Stage -> Nat]
  BY DEF TypeOK
<1>f. Since' \in Int /\ Since' >= Since
  BY Forward
<1>g. ~Apply => stalled' = stalled
  BY Forward
<1>c. faults' = faults => Cost' = Cost
  BY CostStep
<1>1. CASE Apply
  <2>1. /\ due' = due /\ pc[sn] = "apply" /\ pc'[sn] = "rest" /\ faults' = faults
        /\ UNCHANGED <<started, lastPop>> /\ stalled' = (at[sn] - Anchor(seen) > Minutes)
    BY <1>1, <1>t, <1>n DEF Apply, Goto
  <2>2. seen <= lastPop /\ due[sn] <= at[sn] + Slow[sn]
    BY <1>n, <2>1 DEF WatchInv, PaceInv, Working
  <2>3. Anchor(seen) \in Int /\ Anchor(seen) <= Since /\ Since' = Since
    BY <1>n, <2>1, <2>2 DEF Anchor, Since, Later
  <2>4. ~stalled' => due[sn] - (Since + Minutes + Cost) <= Slow[sn]
    <3>1. ~stalled' => ~(at[sn] - Anchor(seen) > Minutes)
      BY <2>1
    <3>2. ~(at[sn] - Anchor(seen) > Minutes) => due[sn] - (Since + Minutes + Cost) <= Slow[sn]
      BY <1>n, <2>2, <2>3
    <3> QED  BY <3>1, <3>2
  <2>5. ~stalled' => due'[sn] - (Since' + Minutes + Cost') <= Slow[sn]
    BY <1>c, <2>1, <2>3, <2>4
  <2> QED  BY <2>1, <2>5 DEF ReportInv, Near
<1>2. CASE Start
  <2>1. started' = now /\ lastPop' = lastPop /\ faults' = faults /\ pc'[sn] = "wait" /\ due'[sn] = now
    BY <1>2, <1>n DEF Start
  <2>2. Since' = now /\ Cost' = Cost
    BY <1>n, <1>c, <2>1 DEF Since, Later
  <2> QED  BY <1>n, <2>1, <2>2 DEF ReportInv, Near
<1>3. CASE ~Apply /\ ~Start
  <2> SUFFICES ASSUME ~stalled  PROVE Near(pc'[sn], due'[sn], Since' + Minutes + Cost')
    BY <1>3, <1>g DEF ReportInv
  <2>1. Since + Minutes \in Int /\ Since' + Minutes \in Int /\ Since' + Minutes >= Since + Minutes
    BY <1>n, <1>f, Order
  <2>2. Near(pc[sn], due[sn], Since + Minutes + Cost)
    BY DEF ReportInv
  <2> QED  BY <1>3, <2>1, <2>2, NearStep
<1> QED  BY <1>1, <1>2, <1>3

LEMMA AlarmStep == TypeOK /\ PaceInv /\ AlarmInv /\ WatchInv /\ [Next]_vars => AlarmInv'
<1> SUFFICES ASSUME TypeOK, PaceInv, AlarmInv, WatchInv, [Next]_vars  PROVE AlarmInv'
  OBVIOUS
<1> USE DEF rows, watch, bounds
<1> DEFINE sn == "snapshot"
<1> DEFINE b == Later(overdueAt, started)
<1>n. /\ now \in Nat /\ due[sn] \in Nat /\ at[sn] \in Nat /\ Every[sn] \in Nat /\ Slow[sn] \in Nat
      /\ started \in Int /\ overdueAt \in Int /\ overdueAt <= now /\ started <= now
      /\ Cost \in Nat /\ sn \in Stage
  BY Numbers
<1>t. pc \in [Stage -> PcValues] /\ due \in [Stage -> Nat]
  BY DEF TypeOK
<1>f. /\ overdueAt' \in Int /\ overdueAt' >= overdueAt
      /\ ~Start => started' = started
      /\ ~Apply => stalled' = stalled
  BY Forward
<1>c. faults' = faults => Cost' = Cost
  BY CostStep
<1>1. CASE Apply
  <2>1. /\ due' = due /\ pc[sn] = "apply" /\ pc'[sn] = "rest" /\ faults' = faults
        /\ UNCHANGED <<started, overdueAt>> /\ stalled' = (at[sn] - Anchor(seen) > Minutes)
    BY <1>1, <1>t, <1>n DEF Apply, Goto
  <2>2. stalled' => overdueAt >= at[sn]
    BY <1>n, <2>1 DEF WatchInv
  <2>3. due[sn] <= at[sn] + Slow[sn] /\ b \in Int /\ b >= overdueAt
    BY <1>n, <2>1 DEF PaceInv, Working, Later
  <2>4. stalled' => due[sn] - (b + Cost) <= Slow[sn]
    BY <1>n, <2>2, <2>3
  <2>5. stalled' => due'[sn] - (b' + Cost') <= Slow[sn]
    <3>1. b' = b
      BY <2>1 DEF Later
    <3> QED  BY <1>c, <2>1, <2>4, <3>1
  <2> QED  BY <2>1, <2>5 DEF AlarmInv, Near
<1>2. CASE Start
  <2>1. started' = now /\ overdueAt' = overdueAt /\ faults' = faults /\ pc'[sn] = "wait" /\ due'[sn] = now
    BY <1>2, <1>n DEF Start
  <2>2. b' = now /\ Cost' = Cost
    BY <1>n, <1>c, <2>1 DEF Later
  <2>3. Near(pc'[sn], due'[sn], b' + Cost')
    BY <1>n, <2>1, <2>2 DEF Near
  <2> QED  BY <2>3 DEF AlarmInv
<1>3. CASE ~Apply /\ ~Start
  <2> SUFFICES ASSUME stalled  PROVE Near(pc'[sn], due'[sn], b' + Cost')
    BY <1>3, <1>f DEF AlarmInv
  <2>1. b \in Int /\ b' \in Int /\ b' >= b
    BY <1>3, <1>n, <1>f DEF Later
  <2>2. Near(pc[sn], due[sn], b + Cost)
    BY DEF AlarmInv
  <2> QED  BY <1>3, <2>1, <2>2, NearStep
<1> QED  BY <1>1, <1>2, <1>3

\* In either state of the rule the snapshot loop is not further than Delay.
LEMMA NearEnough ==
  ASSUME TypeOK, PaceInv, Up, NEW b \in Int, Near(pc["snapshot"], due["snapshot"], b + Cost)
  PROVE  now - b <= Delay
<1>1. /\ now \in Nat /\ due["snapshot"] \in Nat /\ "snapshot" \in Stage
      /\ Every["snapshot"] \in Nat /\ Slow["snapshot"] \in Nat /\ Cost \in Nat
  BY Numbers
<1>2. pc["snapshot"] \in PcValues \ {"down"} /\ now <= due["snapshot"]
  BY <1>1 DEF Up, PaceInv, TypeOK
<1>3. due["snapshot"] - (b + Cost) <= Every["snapshot"] + 2 * Slow["snapshot"]
  BY <1>1, <1>2 DEF Near, PcValues
<1>4. Delay = Every["snapshot"] + 2 * Slow["snapshot"] + Cost
  BY DEF Delay, Cost
<1> QED  BY <1>1, <1>2, <1>3, <1>4

\* collector.ts:61: a process that is up reports a stall within the delay the pace
\* of the snapshot loop allows, whether or not the gateway answers it.
THEOREM StallIsReported == Spec => []StallReported
<1>1. TypeOK /\ PaceInv /\ ReportInv => StallReported
  <2> SUFFICES ASSUME TypeOK, PaceInv, ReportInv, Up, ~stalled
               PROVE  ~(now - Since > Minutes + Delay)
    BY DEF StallReported
  <2>1. now \in Nat /\ Since \in Int /\ Minutes \in Nat
    BY Numbers
  <2>2. now - (Since + Minutes) <= Delay
    BY <2>1, NearEnough DEF ReportInv
  <2>3. Delay \in Int
    BY Numbers DEF Delay, Cost
  <2> QED  BY <2>1, <2>2, <2>3
<1> QED  BY <1>1, TypeInit, TypeStep, PaceInit, PaceStep, WatchStep, ReportStep, PTL DEF Spec

\* run.ts:27, 46: an alarm that was raised on a state read too early, or whose
\* silence is over, does not outlive the same delay.
THEOREM AlarmsEnd == Spec => []AlarmEnds
<1>1. TypeOK /\ PaceInv /\ AlarmInv => AlarmEnds
  <2> SUFFICES ASSUME TypeOK, PaceInv, AlarmInv, Up, stalled
               PROVE  now - Later(overdueAt, started) <= Delay
    BY DEF AlarmEnds
  <2>1. Later(overdueAt, started) \in Int
    BY Numbers, LaterIs
  <2> QED  BY <2>1, NearEnough DEF AlarmInv
<1> QED  BY <1>1, TypeInit, TypeStep, PaceInit, PaceStep, WatchStep, AlarmStep, PTL DEF Spec
=============================================================================
