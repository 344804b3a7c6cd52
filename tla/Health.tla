------------------------------ MODULE Health ------------------------------
(***************************************************************************)
(* What an operator is told about the collector: the error rows the three  *)
(* loops of server/ledger/collector.ts keep in collector_state, the one    *)
(* error /healthz shows (server/ledger/store.ts readCollectorState,        *)
(* server/health.ts) and the stalled rule of server/alerts/evaluate.ts,    *)
(* which only the snapshot loop evaluates.  Each loop repeats its cycle a  *)
(* fixed time after the last one ended; the cycles interleave statement by *)
(* statement, any of them may fail, and the process may die and start      *)
(* again on the same database.                                             *)
(*                                                                         *)
(* Time is a clock in ticks.  A cycle may take up to Slow ticks: its calls *)
(* to the gateway time out.  What a cycle stores is left to UsagePop,      *)
(* Snapshots and Retention, and the rest of the alert pass to Alerts; one  *)
(* stalled rule is configured, on, and stays as it is.                     *)
(***************************************************************************)
EXTENDS Integers

CONSTANTS
  Every,        \* [Stage -> Nat]: POP_EVERY, SNAPSHOT_EVERY, MAINTAIN_EVERY
  Slow,         \* [Stage -> Nat]: the longest a cycle takes
  Minutes,      \* minutes of the stalled rule
  MaxTime,      \* bound: ticks of the clock
  MaxFaults,    \* bound: SQL statements that fail, gateway failures are free
  MaxCrashes    \* bound: process deaths

Stage == {"pop", "snapshot", "maintain"}

ASSUME PaceAssumption == Every \in [Stage -> Nat \ {0}] /\ Slow \in [Stage -> Nat]
ASSUME MinutesAssumption == Minutes \in Nat
ASSUME BoundAssumption == MaxTime \in Nat /\ MaxFaults \in Nat /\ MaxCrashes \in Nat

VARIABLES
  now,
  started,      \* collector_state started_at
  lastPop,      \* collector_state last_pop_at
  error,        \* the stages with a row error:<stage>
  errorAt,      \* the rows error_at:<stage>
  stalled,      \* does the stalled rule fire?
  pc,           \* each loop's next statement
  due,          \* when its cycle must start, or have ended
  at,           \* receivedAt of a pop, recordedAt of a snapshot
  outage,       \* is the alert pass one with pools = null?
  seen,         \* lastPopAt as the alert pass has read it
  noted,        \* history: when a stage that still fails last had its error noted
  overdueAt,    \* history: when last no pop and no start was as young as the rule's minutes
  faults, crashes

rows   == <<started, lastPop, error, errorAt, stalled>>
watch  == <<outage, seen, overdueAt>>
bounds == <<faults, crashes>>
vars == <<now, rows, pc, due, at, watch, noted, bounds>>

Never == -1
PcValues == {"down", "wait", "call", "store", "clear", "clearAt",
             "read", "apply", "rest", "note", "noteAt"}
PassPcs == {"read", "apply", "rest"}

Later(s, t) == IF s > t THEN s ELSE t

\* The last sign of life, and whether it is older than the rule allows.
Since == Later(lastPop, started)
Overdue(t) == t - Since > Minutes

-----------------------------------------------------------------------------
(* The clock and the loops' pace. *)

Up == \A s \in Stage : pc[s] # "down"

\* A loop that is due moves before time does.
Tick ==
  /\ now < MaxTime
  /\ \A s \in Stage : pc[s] # "down" => now < due[s]
  /\ now' = now + 1
  /\ overdueAt' = IF Overdue(now') THEN now' ELSE overdueAt
  /\ UNCHANGED <<rows, pc, due, at, outage, seen, noted, bounds>>

Goto(s, label) == pc' = [pc EXCEPT ![s] = label] /\ UNCHANGED <<due, at>>

\* Schedule.spaced: the next cycle starts a fixed time after this one ended.
EndCycle(s) ==
  /\ pc' = [pc EXCEPT ![s] = "wait"]
  /\ due' = [due EXCEPT ![s] = now + Every[s]]
  /\ at' = [at EXCEPT ![s] = 0]

StartCycle(s) ==
  /\ pc[s] = "wait" /\ now = due[s]
  /\ pc' = [pc EXCEPT ![s] = "call"]
  /\ due' = [due EXCEPT ![s] = now + Slow[s]]
  /\ UNCHANGED <<now, rows, at, noted, watch, bounds>>

\* A statement of the cycle fails: loop's catchCause goes on to noteError.
Fault(s) == faults < MaxFaults /\ faults' = faults + 1 /\ Goto(s, "note")

-----------------------------------------------------------------------------
(* noteError and clearError. *)

\* Two statements; a failure of either is swallowed and ends the cycle.
Note(s) ==
  /\ pc[s] = "note"
  /\ error' = error \union {s}
  /\ Goto(s, "noteAt")
  /\ UNCHANGED <<now, started, lastPop, errorAt, stalled, noted, watch, bounds>>

NoteAt(s) ==
  /\ pc[s] = "noteAt"
  /\ errorAt' = [errorAt EXCEPT ![s] = now]
  /\ noted' = [noted EXCEPT ![s] = now]
  /\ EndCycle(s)
  /\ UNCHANGED <<now, started, lastPop, error, stalled, watch, bounds>>

NoteFails(s) ==
  /\ pc[s] \in {"note", "noteAt"}
  /\ faults < MaxFaults /\ faults' = faults + 1
  /\ EndCycle(s)
  /\ UNCHANGED <<now, rows, noted, watch, crashes>>

\* Mutant: a healthy stage clears what the others reported.
ClearAll(s) ==
  /\ pc[s] = "clear"
  /\ error' = {}
  /\ noted' = [noted EXCEPT ![s] = Never]
  /\ Goto(s, "clearAt")
  /\ UNCHANGED <<now, started, lastPop, errorAt, stalled, watch, bounds>>

\* The cycle did its work: two deletes, then a snapshot goes on to the alerts.
Clear(s) ==
  /\ pc[s] = "clear"
  /\ error' = error \ {s}
  /\ noted' = [noted EXCEPT ![s] = Never]
  /\ Goto(s, "clearAt")
  /\ UNCHANGED <<now, started, lastPop, errorAt, stalled, watch, bounds>>

ClearAt(s) ==
  /\ pc[s] = "clearAt"
  /\ errorAt' = [errorAt EXCEPT ![s] = Never]
  /\ IF s = "snapshot" THEN Goto(s, "read") ELSE EndCycle(s)
  /\ UNCHANGED <<now, started, lastPop, error, stalled, noted, watch, bounds>>

ClearFails(s) ==
  /\ pc[s] \in {"clear", "clearAt"} /\ Fault(s)
  /\ UNCHANGED <<now, rows, noted, watch, crashes>>

-----------------------------------------------------------------------------
(* The cycles. *)

\* The cycle takes the time its rows or its alert pass will carry.
AtNow(s, label) ==
  /\ pc' = [pc EXCEPT ![s] = label]
  /\ at' = [at EXCEPT ![s] = now]
  /\ UNCHANGED due

\* The gateway answers (maintain asks it nothing): receivedAt and recordedAt.
Called(s) ==
  /\ pc[s] = "call"
  /\ AtNow(s, "store")
  /\ UNCHANGED <<now, rows, noted, watch, bounds>>

\* Mutant: a gateway outage skips the alert pass.
UnansweredSkips(s) ==
  /\ pc[s] = "call" /\ s # "maintain"
  /\ Goto(s, "note")
  /\ UNCHANGED <<now, rows, noted, watch, bounds>>

\* The gateway does not answer: a snapshot still runs the collector's rules,
\* as of now, and then fails.
Unanswered(s) ==
  /\ pc[s] = "call" /\ s # "maintain"
  /\ IF s = "snapshot"
     THEN AtNow(s, "read") /\ outage' = TRUE
     ELSE Goto(s, "note") /\ UNCHANGED outage
  /\ UNCHANGED <<now, rows, noted, seen, overdueAt, bounds>>

\* The writes of the cycle; the last of a pop's is last_pop_at.
Stored(s) ==
  /\ pc[s] = "store"
  /\ lastPop' = IF s = "pop" THEN at[s] ELSE lastPop
  /\ Goto(s, "clear")
  /\ UNCHANGED <<now, started, error, errorAt, stalled, noted, watch, bounds>>

StoreFails(s) ==
  /\ pc[s] = "store" /\ Fault(s)
  /\ UNCHANGED <<now, rows, noted, watch, crashes>>

-----------------------------------------------------------------------------
(* The alert pass, of which only the stalled rule is kept. *)

\* The pass is over, or breaks off: its variables are gone.
Forget == outage' = FALSE /\ seen' = Never /\ UNCHANGED overdueAt

\* One statement reads last_pop_at and started_at; the latter stands while the
\* process lives.
ReadCollector ==
  /\ pc["snapshot"] = "read"
  /\ seen' = lastPop
  /\ Goto("snapshot", "apply")
  /\ UNCHANGED <<now, rows, outage, noted, overdueAt, bounds>>

\* Mutant: a restart does not earn its minutes.
AnchorIsPop(lastPopAt) == lastPopAt

\* evaluate, stalled: the later of the last pop and the start.
Anchor(lastPopAt) == Later(lastPopAt, started)

\* Mutant: with the gateway out, what fires is left alone.
ApplyClearsAnswered ==
  /\ pc["snapshot"] = "apply"
  /\ stalled' = (at["snapshot"] - Anchor(seen) > Minutes \/ (outage /\ stalled))
  /\ Goto("snapshot", "rest")
  /\ UNCHANGED <<now, started, lastPop, error, errorAt, noted, watch, bounds>>

\* applyCondition of the stalled rule, after the mails and states of rules before
\* it: what it applies compares the snapshot's time with what was read.
Apply ==
  /\ pc["snapshot"] = "apply"
  /\ stalled' = (at["snapshot"] - Anchor(seen) > Minutes)
  /\ Goto("snapshot", "rest")
  /\ UNCHANGED <<now, started, lastPop, error, errorAt, noted, watch, bounds>>

\* The rules after it, the missing, the heartbeats; an outage is an error still.
EndPass ==
  /\ pc["snapshot"] = "rest"
  /\ IF outage THEN Goto("snapshot", "note") ELSE EndCycle("snapshot")
  /\ Forget
  /\ UNCHANGED <<now, rows, noted, bounds>>

PassFails ==
  /\ pc["snapshot"] \in PassPcs /\ Fault("snapshot")
  /\ Forget
  /\ UNCHANGED <<now, rows, noted, crashes>>

-----------------------------------------------------------------------------
(* The process. *)

Die ==
  /\ Up /\ crashes < MaxCrashes /\ crashes' = crashes + 1
  /\ pc' = [s \in Stage |-> "down"]
  /\ due' = [s \in Stage |-> 0] /\ at' = [s \in Stage |-> 0]
  /\ Forget
  /\ UNCHANGED <<now, rows, noted, faults>>

\* The Collector layer: started_at, then the three loops, each at once.
Start ==
  /\ ~Up
  /\ started' = now
  /\ pc' = [s \in Stage |-> "wait"]
  /\ due' = [s \in Stage |-> now]
  /\ UNCHANGED <<now, at, lastPop, error, errorAt, stalled, noted, watch, bounds>>

-----------------------------------------------------------------------------
Init ==
  /\ now = 0 /\ started = Never /\ lastPop = Never
  /\ error = {} /\ errorAt = [s \in Stage |-> Never]
  /\ stalled = FALSE
  /\ pc = [s \in Stage |-> "down"]
  /\ due = [s \in Stage |-> 0] /\ at = [s \in Stage |-> 0]
  /\ outage = FALSE /\ seen = Never /\ overdueAt = Never
  /\ noted = [s \in Stage |-> Never]
  /\ faults = 0 /\ crashes = 0

Next ==
  \/ Tick \/ ReadCollector \/ Apply \/ EndPass \/ PassFails \/ Die \/ Start
  \/ \E s \in Stage : \/ StartCycle(s) \/ Called(s) \/ Unanswered(s)
                      \/ Stored(s) \/ StoreFails(s)
                      \/ Clear(s) \/ ClearAt(s) \/ ClearFails(s)
                      \/ Note(s) \/ NoteAt(s) \/ NoteFails(s)

Spec == Init /\ [][Next]_vars

-----------------------------------------------------------------------------
(* What is shown. *)

\* readCollectorState: of the error rows the one with the newest error_at, a
\* missing time being older than any.
Shown == {s \in error : \A t \in error : errorAt[s] >= errorAt[t]}

\* lagSeconds of /healthz; no pop at all counts as endless.
Lag == IF lastPop = Never THEN MaxTime + 1 ELSE now - lastPop

-----------------------------------------------------------------------------
(* Properties. *)

\* The state is well formed: no time lies ahead, and only the snapshot loop
\* runs the alert pass.
TypeOK ==
  /\ now \in 0..MaxTime /\ started \in Never..now /\ lastPop \in Never..now
  /\ error \subseteq Stage /\ errorAt \in [Stage -> Never..now]
  /\ stalled \in BOOLEAN
  /\ pc \in [Stage -> PcValues] /\ due \in [Stage -> Nat] /\ at \in [Stage -> 0..now]
  /\ \A s \in Stage : pc[s] \in PassPcs => s = "snapshot"
  /\ outage \in BOOLEAN /\ seen \in Never..now
  /\ noted \in [Stage -> Never..now] /\ overdueAt \in Never..now
  /\ faults \in 0..MaxFaults /\ crashes \in 0..MaxCrashes

\* collector.ts:32, "a healthy pop cannot hide a failing snapshot": as long as a
\* stage's error stands, /healthz shows an error at least as new, whichever
\* order the loops wrote and cleared theirs in and wherever one broke off.
NewestErrorShown ==
  \A s \in Stage : noted[s] # Never => \E t \in Shown : errorAt[t] >= noted[s]

\* The longest until a pass has read and applied what happened: the running pass
\* read it too early, the next one waits, takes its time and applies; a failed
\* statement costs a cycle.
Delay == Every["snapshot"] + 2 * Slow["snapshot"] + faults * (Every["snapshot"] + Slow["snapshot"])

\* collector.ts:61: the stalled rule works when the gateway is out.  A process
\* that is up and has neither popped nor started for longer than its minutes and
\* a snapshot's pace reports it.
StallReported == Up /\ now - Since > Minutes + Delay => stalled

\* A pass may fire on a state that was read before a pop was stored.  Such an alarm,
\* like one whose silence is over, does not stand for longer than a snapshot's
\* pace, outages, broken passes and restarts included.
AlarmEnds == Up /\ stalled => now - Later(overdueAt, started) <= Delay

\* evaluate.ts:44: a restart earns its window.  The rule starts to fire only when
\* the running process has had its minutes, and /healthz then shows a lag above
\* them unless a pop was stored after the pass had read.
FiresOnlyOverdue ==
  [][~stalled /\ stalled' => now - started > Minutes /\ (Lag > Minutes \/ lastPop > seen)]_vars
=============================================================================
