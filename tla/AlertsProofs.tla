--------------------------- MODULE AlertsProofs ---------------------------
(***************************************************************************)
(* Proofs about Alerts, for every set of rules and credentials and every   *)
(* answer of the gateway.                                                  *)
(***************************************************************************)
EXTENDS Alerts, TLAPS

LEMMA NoPairIsNone == NoPair \notin Pair
  BY DEF NoPair, Pair

\* What a pass evaluates are pairs of one of its rules and a subject, the
\* collector for the stalled rules.
LEMMA EvaluatedPairs ==
  ASSUME NEW rules \in SUBSET Rule, NEW o
  PROVE  /\ Evaluated(rules, o) \subseteq Pair
         /\ \A p \in Evaluated(rules, o) : p[1] \in rules
  BY RuleAssumption DEF Evaluated, Emits, Pair, Subject

LEMMA VerdictEvaluated ==
  ASSUME NEW rules, NEW o, NEW overdue
  PROVE  Verdict(rules, o, overdue) \subseteq Evaluated(rules, o)
  BY DEF Verdict

-----------------------------------------------------------------------------
(* Types. *)

LEMMA InitTypeOK == Init => TypeOK
  BY BreakAssumption DEF Init, TypeOK, NoPair

LEMMA BeginTypeOK ==
  ASSUME TypeOK, Begin
  PROVE  TypeOK'
<1> USE FileAssumption DEF TypeOK, tables
<1>1. PICK rules \in {AlertRules(content) : content \in RuleFile} \ {{}},
          reachable \in BOOLEAN, overdue \in BOOLEAN :
        \E o \in IF reachable THEN Answer ELSE {Outage} :
          LET applicable == IF reachable THEN rules ELSE Stalled(rules)
          IN  /\ file' = rules /\ obs' = o
              /\ todo' = Evaluated(applicable, o)
              /\ verdict' = Verdict(applicable, o, overdue)
              /\ pc' = IF reachable THEN "apply" ELSE "applyOutage"
  BY DEF Begin
<1>2. PICK o \in IF reachable THEN Answer ELSE {Outage} :
          LET applicable == IF reachable THEN rules ELSE Stalled(rules)
          IN  /\ file' = rules /\ obs' = o
              /\ todo' = Evaluated(applicable, o)
              /\ verdict' = Verdict(applicable, o, overdue)
              /\ pc' = IF reachable THEN "apply" ELSE "applyOutage"
  BY <1>1
<1> DEFINE applicable == IF reachable THEN rules ELSE Stalled(rules)
<1>3. rules \in SUBSET Rule /\ applicable \in SUBSET Rule
  BY DEF Stalled, AlertRules
<1>4. todo' \subseteq Pair /\ verdict' \subseteq Pair
  BY <1>2, <1>3, EvaluatedPairs, VerdictEvaluated
<1>5. file' \subseteq Rule /\ pc' \in {"apply", "applyOutage"}
  BY <1>2, <1>3
<1>6. QED
  BY <1>4, <1>5 DEF Begin

LEMMA NextTypeOK == TypeOK /\ [Next]_vars => TypeOK'
<1> SUFFICES ASSUME TypeOK, [Next]_vars PROVE TypeOK'
  OBVIOUS
<1> USE DEF TypeOK, tables, history
<1>1. CASE Begin
  BY <1>1, BeginTypeOK
<1>2. ASSUME NEW p \in Pair, Apply(p) PROVE TypeOK'
  <2>1. firing' \subseteq Pair /\ open' \in [Pair -> Nat] /\ torn' \subseteq Pair
    BY <1>2 DEF Apply, Fire, Clear, NoCrossing
  <2>2. current' \in Pair \union {NoPair}
    BY <1>2 DEF Apply
  <2>3. QED
    BY <1>2, <2>1, <2>2 DEF Apply, Applying
<1>3. ASSUME NEW p \in Pair, ClearMissingState(p) PROVE TypeOK'
  BY <1>3 DEF ClearMissingState
<1>4. CASE Mail
  BY <1>4 DEF Mail, Applying
<1>5. CASE SelectMissing
  BY <1>5 DEF SelectMissing, Applying
<1>6. CASE ClearMissingIncident
  BY <1>6 DEF ClearMissingIncident
<1>7. CASE EndMissing
  BY <1>7 DEF EndMissing
<1>8. ASSUME NEW r \in Rule, Beat(r) PROVE TypeOK'
  BY <1>8 DEF Beat
<1>9. CASE End
  BY <1>9 DEF End, Reset
<1>10. CASE Break
  BY <1>10, BreakAssumption DEF Break, Reset
<1>11. CASE UNCHANGED vars
  BY <1>11 DEF vars, pass
<1>12. QED
  BY <1>1, <1>2, <1>3, <1>4, <1>5, <1>6, <1>7, <1>8, <1>9, <1>10, <1>11 DEF Next

\* The type invariant of the specification; between passes the pass holds
\* nothing over (run.ts keeps its state in the fiber).
THEOREM TypeCorrect == Spec => []TypeOK
<1>1. Init => TypeOK
  BY InitTypeOK
<1>2. TypeOK /\ [Next]_vars => TypeOK'
  BY NextTypeOK
<1>3. QED
  BY <1>1, <1>2, PTL DEF Spec

-----------------------------------------------------------------------------
(* A pass. *)

Deciding == pc \in {"apply", "applyOutage", "missing"}

\* A pair the pass has applied is as the pass judged it.
Settled == Deciding => /\ verdict \subseteq todo \union seen
                       /\ \A p \in seen : p \in firing <=> p \in verdict

\* A pass with pools applies all it evaluated; one without, stalled rules only.
Coverage ==
  /\ pc \in {"apply", "missing"} => /\ obs \in Answer
                                   /\ Evaluated(file, obs) \subseteq todo \union seen
  /\ pc = "applyOutage" => \A p \in todo : Kind[p[1]] = "stalled"

\* The rows clearMissing still has to clear are the firing pairs not applied.
MissingRows ==
  pc = "missing" =>
    /\ todo = {}
    /\ missing \intersect seen = {}
    /\ firing \ seen \subseteq missing
    /\ missing \ {current} \subseteq firing
    /\ current # NoPair => current \in missing /\ current \notin firing

\* The verdict on a pair not yet applied was reached against its present state.
Pending ==
  Applying => \A p \in todo : Kind[p[1]] = "remaining" =>
                p \in verdict <=> obs[p[2]].remaining < Line(p \in firing)

PostedTruth ==
  /\ Deciding => fresh = {}
  /\ ~Deciding => \A r \in fresh :
                    beat[r] = "fail" <=> \E s \in Subject : <<r, s>> \in firing

PassInv == TypeOK /\ Settled /\ Coverage /\ MissingRows /\ Pending /\ PostedTruth

LEMMA InitPassInv == Init => PassInv
  BY InitTypeOK DEF Init, PassInv, Settled, Coverage, MissingRows, Pending, PostedTruth,
     Deciding, Applying

LEMMA BeginPassInv ==
  ASSUME PassInv, Begin, TypeOK'
  PROVE  PassInv'
<1> USE FileAssumption DEF tables
<1>1. PICK rules \in {AlertRules(content) : content \in RuleFile} \ {{}},
          reachable \in BOOLEAN, overdue \in BOOLEAN :
        \E o \in IF reachable THEN Answer ELSE {Outage} :
          LET applicable == IF reachable THEN rules ELSE Stalled(rules)
          IN  /\ file' = rules /\ obs' = o
              /\ todo' = Evaluated(applicable, o)
              /\ verdict' = Verdict(applicable, o, overdue)
              /\ pc' = IF reachable THEN "apply" ELSE "applyOutage"
  BY DEF Begin
<1>2. PICK o \in IF reachable THEN Answer ELSE {Outage} :
          LET applicable == IF reachable THEN rules ELSE Stalled(rules)
          IN  /\ file' = rules /\ obs' = o
              /\ todo' = Evaluated(applicable, o)
              /\ verdict' = Verdict(applicable, o, overdue)
              /\ pc' = IF reachable THEN "apply" ELSE "applyOutage"
  BY <1>1
<1> DEFINE applicable == IF reachable THEN rules ELSE Stalled(rules)
<1>3. applicable \in SUBSET Rule
  BY DEF Stalled, AlertRules
<1>4. todo' = Evaluated(applicable, o) /\ verdict' = Verdict(applicable, o, overdue)
  BY <1>2
<1>5. seen' = {} /\ firing' = firing /\ fresh' = {} /\ pc' \in {"apply", "applyOutage"}
  BY <1>2 DEF Begin, PassInv, TypeOK
<1>6. Settled'
  BY <1>4, <1>5, VerdictEvaluated DEF Settled
<1>7. Coverage'
  <2>1. CASE reachable
    BY <1>2, <2>1 DEF Coverage
  <2>2. CASE ~reachable
    <3>1. \A p \in todo' : p[1] \in Stalled(rules)
      BY <1>3, <1>4, <2>2, EvaluatedPairs
    <3>2. QED
      BY <1>2, <2>2, <3>1 DEF Coverage, Stalled
  <2>3. QED
    BY <2>1, <2>2
<1>8. MissingRows'
  BY <1>5 DEF MissingRows
<1>9. Pending'
  <2> SUFFICES ASSUME NEW p \in todo', Kind[p[1]] = "remaining"
               PROVE  p \in verdict' <=> obs'[p[2]].remaining < Line(p \in firing)
    BY <1>5 DEF Pending
  <2>1. p \in Evaluated(applicable, o) /\ obs' = o
    BY <1>2, <1>4
  <2>2. p \in Verdict(applicable, o, overdue) <=> Fires(p[1], o[p[2]], p \in firing)
    BY <2>1 DEF Verdict
  <2>3. QED
    BY <1>4, <2>1, <2>2 DEF Fires
<1>10. PostedTruth'
  BY <1>5 DEF PostedTruth, Deciding
<1>11. QED
  BY <1>6, <1>7, <1>8, <1>9, <1>10 DEF PassInv

LEMMA ApplyPassInv ==
  ASSUME PassInv, NEW p \in Pair, Apply(p), TypeOK'
  PROVE  PassInv'
<1> USE DEF PassInv, Apply, Applying
<1>1. p \in firing' <=> p \in verdict
  BY DEF Fire, Clear, NoCrossing, tables
<1>2. \A q \in Pair : q # p => (q \in firing' <=> q \in firing)
  BY DEF Fire, Clear, NoCrossing, tables
<1>3. todo \subseteq Pair /\ seen \subseteq Pair /\ verdict \subseteq Pair
  BY DEF TypeOK
<1>4. Settled'
  BY <1>1, <1>2, <1>3 DEF Settled, Deciding
<1>5. Coverage'
  BY DEF Coverage
<1>6. MissingRows'
  BY DEF MissingRows
<1>7. Pending'
  BY <1>2, <1>3 DEF Pending
<1>8. PostedTruth'
  BY DEF PostedTruth, Deciding
<1>9. QED
  BY <1>4, <1>5, <1>6, <1>7, <1>8

LEMMA BeatPassInv ==
  ASSUME PassInv, NEW r \in Rule, Beat(r), TypeOK'
  PROVE  PassInv'
<1> USE DEF PassInv, Beat, tables
<1>1. Settled' /\ Coverage' /\ MissingRows' /\ Pending'
  BY DEF Settled, Coverage, MissingRows, Pending, Deciding, Applying
<1> DEFINE Fails(q) == \E s \in Subject : <<q, s>> \in firing
<1>2. ASSUME NEW q \in fresh' PROVE beat'[q] = "fail" <=> Fails(q)
  <2>1. q \in Rule /\ beat \in [Rule -> {"nothing", "fail", "ok"}]
    BY FileAssumption DEF TypeOK
  <2>2. CASE beat' = [beat EXCEPT ![r] = IF Fails(r) THEN "fail" ELSE "ok"] /\ q = r
    BY <2>1, <2>2
  <2>3. CASE q \in fresh /\ beat'[q] = beat[q]
    BY <2>3 DEF PostedTruth, Deciding
  <2>4. QED
    BY <2>1, <2>2, <2>3
<1>3. PostedTruth'
  BY <1>2 DEF PostedTruth, Deciding
<1>4. QED
  BY <1>1, <1>3

LEMMA ClearMissingStatePassInv ==
  ASSUME PassInv, NEW p \in Pair, ClearMissingState(p), TypeOK'
  PROVE  PassInv'
<1> USE DEF PassInv, ClearMissingState, tables, history
<1>1. p \in firing /\ p \notin seen
  BY NoPairIsNone DEF MissingRows, TypeOK
<1>2. Settled'
  BY <1>1 DEF Settled, Deciding
<1>3. Coverage' /\ Pending'
  BY DEF Coverage, Pending, Applying
<1>4. MissingRows'
  <2>1. missing \subseteq firing
    BY NoPairIsNone DEF MissingRows, TypeOK
  <2>2. missing' \ {current'} \subseteq firing' /\ firing' \ seen' \subseteq missing'
    BY <2>1 DEF MissingRows
  <2>3. current' \in missing' /\ current' \notin firing'
    OBVIOUS
  <2>4. todo' = {} /\ missing' \intersect seen' = {}
    BY DEF MissingRows
  <2>5. QED
    BY <2>2, <2>3, <2>4 DEF MissingRows
<1>5. PostedTruth'
  BY DEF PostedTruth, Deciding
<1>6. QED
  BY <1>2, <1>3, <1>4, <1>5

LEMMA NextPassInv == PassInv /\ [Next]_vars => PassInv'
<1> SUFFICES ASSUME PassInv, [Next]_vars PROVE PassInv'
  OBVIOUS
<1>0. TypeOK'
  BY NextTypeOK DEF PassInv
<1> USE <1>0, NoPairIsNone DEF tables, history
<1>1. CASE Begin
  BY <1>1, BeginPassInv
<1>2. ASSUME NEW p \in Pair, Apply(p) PROVE PassInv'
  BY <1>2, ApplyPassInv
<1>3. ASSUME NEW p \in Pair, ClearMissingState(p) PROVE PassInv'
  BY <1>3, ClearMissingStatePassInv
<1>8. ASSUME NEW r \in Rule, Beat(r) PROVE PassInv'
  BY <1>8, BeatPassInv
<1> USE DEF PassInv, Settled, Coverage, MissingRows, Pending, PostedTruth, Deciding, Applying
<1>4. CASE Mail
  BY <1>4 DEF Mail
<1>5. CASE SelectMissing
  BY <1>5 DEF SelectMissing
<1>6. CASE ClearMissingIncident
  BY <1>6 DEF ClearMissingIncident
<1>7. CASE EndMissing
  BY <1>7 DEF EndMissing
<1>9. CASE End
  BY <1>9 DEF End, Reset
<1>10. CASE Break
  BY <1>10 DEF Break, Reset
<1>11. CASE UNCHANGED vars
  BY <1>11 DEF vars, pass
<1>12. QED
  BY <1>1, <1>2, <1>3, <1>4, <1>5, <1>6, <1>7, <1>8, <1>9, <1>10, <1>11 DEF Next

LEMMA PassInductive == Spec => []PassInv
<1>1. QED
  BY InitPassInv, NextPassInv, PTL DEF Spec

-----------------------------------------------------------------------------
(* Incidents. *)

IncidentInv == PassInv /\ FiringHasIncident /\ IncidentsMatch

LEMMA InitIncidents == Init => IncidentInv
  BY InitPassInv DEF Init, IncidentInv, FiringHasIncident, IncidentsMatch

\* Every statement that touches a pair's state is answered for by the one that
\* touches its incidents, in the same transaction or as the very next one.
LEMMA NextIncidents == IncidentInv /\ [Next]_vars => IncidentInv'
<1> SUFFICES ASSUME IncidentInv, [Next]_vars PROVE IncidentInv'
  OBVIOUS
<1>0. PassInv /\ PassInv' /\ TypeOK
  BY NextPassInv DEF IncidentInv, PassInv
<1> SUFFICES FiringHasIncident' /\ IncidentsMatch'
  BY <1>0 DEF IncidentInv
<1> USE <1>0, NoPairIsNone DEF IncidentInv, FiringHasIncident, IncidentsMatch, tables, history
<1>1. CASE Begin
  BY <1>1 DEF Begin
<1>2. ASSUME NEW p \in Pair, Apply(p) PROVE FiringHasIncident' /\ IncidentsMatch'
  <2>1. /\ pc # "missing" /\ pc' = pc /\ open \in [Pair -> Nat]
    BY <1>2 DEF Apply, Applying, TypeOK
  <2>2. CASE Fire(p)
    BY <2>1, <2>2 DEF Fire
  <2>3. CASE Clear(p)
    BY <2>1, <2>3 DEF Clear
  <2>4. CASE NoCrossing(p)
    BY <2>1, <2>4 DEF NoCrossing
  <2>5. QED
    BY <1>2, <2>2, <2>3, <2>4 DEF Apply
<1>3. ASSUME NEW p \in Pair, ClearMissingState(p) PROVE FiringHasIncident' /\ IncidentsMatch'
  <2>1. p \in firing
    BY <1>3 DEF ClearMissingState, PassInv, MissingRows
  <2>2. QED
    BY <1>3, <2>1 DEF ClearMissingState
<1>4. CASE Mail
  BY <1>4 DEF Mail, Applying
<1>5. CASE SelectMissing
  BY <1>5 DEF SelectMissing, Applying
<1>6. CASE ClearMissingIncident
  <2>1. /\ current \in Pair /\ current \notin firing /\ open \in [Pair -> Nat]
        /\ open' = [open EXCEPT ![current] = 0] /\ firing' = firing
        /\ current' = NoPair /\ torn' = torn \ {current}
    BY <1>6 DEF ClearMissingIncident, TypeOK, PassInv, MissingRows
  <2>2. FiringHasIncident'
    BY <2>1
  <2>3. ASSUME NEW q \in Pair, q \notin torn'
        PROVE  open'[q] = IF q \in firing' \/ (pc' = "missing" /\ current' = q) THEN 1 ELSE 0
    BY <2>1, <2>3
  <2>4. QED
    BY <2>2, <2>3
<1>7. CASE EndMissing
  BY <1>7 DEF EndMissing
<1>8. ASSUME NEW r \in Rule, Beat(r) PROVE FiringHasIncident' /\ IncidentsMatch'
  BY <1>8 DEF Beat
<1>9. CASE End
  BY <1>9 DEF End, Reset
<1>10. CASE Break
  BY <1>10 DEF Break, Reset
<1>11. CASE UNCHANGED vars
  BY <1>11 DEF vars, pass
<1>12. QED
  BY <1>1, <1>2, <1>3, <1>4, <1>5, <1>6, <1>7, <1>8, <1>9, <1>10, <1>11 DEF Next

LEMMA IncidentsInductive == Spec => []IncidentInv
<1>1. QED
  BY InitIncidents, NextIncidents, PTL DEF Spec

-----------------------------------------------------------------------------
(* The theorems. *)

\* A firing pair always has an open incident, and a pair's incidents are exactly
\* one while it fires and none else, as long as no pass broke off inside
\* clearMissing (store.ts applyCondition, clearMissing).
THEOREM IncidentsCorrect == Spec => [](FiringHasIncident /\ IncidentsMatch)
<1>1. IncidentInv => FiringHasIncident /\ IncidentsMatch
  BY DEF IncidentInv
<1>2. QED
  BY <1>1, IncidentsInductive, PTL

\* After clearMissing the stored states are the evaluated ones, for every pair
\* (run.ts: "A subject that vanished from the pool clears").
THEOREM PassSettles == Spec => []FullPassSettles
<1>1. PassInv => FullPassSettles
  <2> SUFFICES ASSUME PassInv, pc = "missing", missing = {}, current = NoPair
               PROVE  firing = verdict
    BY DEF FullPassSettles
  <2>1. verdict \subseteq seen /\ firing \subseteq seen
    BY DEF PassInv, Settled, MissingRows, Deciding
  <2>2. QED
    BY <2>1 DEF PassInv, Settled, Deciding
<1>2. QED
  BY <1>1, PassInductive, PTL

\* The heartbeats say what the table holds (run.ts, the last loop of runAlerts).
THEOREM HeartbeatsTruthful == Spec => []HeartbeatTrue
<1>1. PassInv => HeartbeatTrue
  BY DEF PassInv, PostedTruth, HeartbeatTrue, Deciding
<1>2. QED
  BY <1>1, PassInductive, PTL

\* A pass without pools touches the collector's pairs only (run.ts, pools null).
THEOREM OutageHarmless == Spec => OutageLeavesCredentials
<1> DEFINE Same == pc # "idle" /\ obs = Outage =>
             \A p \in Pair : Kind[p[1]] # "stalled" =>
               /\ p \in firing' <=> p \in firing
               /\ open'[p] = open[p]
<1>1. PassInv /\ [Next]_vars => [Same]_vars
  <2> SUFFICES ASSUME PassInv, Next, pc # "idle", obs = Outage,
                      NEW p \in Pair, Kind[p[1]] # "stalled"
               PROVE  (p \in firing' <=> p \in firing) /\ open'[p] = open[p]
    OBVIOUS
  <2>0. pc \in {"applyOutage", "beat"}
    BY OutageAssumption DEF PassInv, Coverage, TypeOK
  <2>1. pc = "applyOutage" => p \notin todo
    BY DEF PassInv, Coverage
  <2>2. ASSUME NEW q \in Pair, Apply(q)
        PROVE  (p \in firing' <=> p \in firing) /\ open'[p] = open[p]
    BY <2>0, <2>1, <2>2 DEF Apply, Applying, Fire, Clear, NoCrossing, tables, PassInv, TypeOK
  <2>3. CASE \A q \in Pair : ~Apply(q)
    BY <2>0, <2>3 DEF Next, Begin, ClearMissingState, Mail, SelectMissing, ClearMissingIncident,
       EndMissing, Beat, End, Break, tables
  <2>4. QED
    BY <2>2, <2>3
<1>2. QED
  BY <1>1, PassInductive, PTL DEF Spec, OutageLeavesCredentials

\* No observation inside the margin moves a remaining rule either way
\* (evaluate.ts, the case "remaining").
THEOREM HysteresisHolds == Spec => Hysteresis
<1> DEFINE Held(p) ==
             /\ p \in firing' \ firing => obs[p[2]].remaining < Below
             /\ p \in firing \ firing' =>
                  \/ p \notin Evaluated(file, obs)
                  \/ obs[p[2]].remaining >= Below + ClearMargin
<1>1. PassInv /\ [Next]_vars => [\A p \in Pair : Kind[p[1]] = "remaining" => Held(p)]_vars
  <2> SUFFICES ASSUME PassInv, Next, NEW p \in Pair, Kind[p[1]] = "remaining" PROVE Held(p)
    OBVIOUS
  <2>1. CASE Apply(p)
    <3>1. pc = "apply" /\ (p \in verdict <=> obs[p[2]].remaining < Line(p \in firing))
      BY <2>1 DEF PassInv, Coverage, Pending, Apply, Applying
    <3>2. \/ p \notin firing /\ p \in verdict
          \/ p \in firing /\ p \notin verdict
          \/ p \in firing' <=> p \in firing
      BY <2>1 DEF Apply, Fire, Clear, NoCrossing, tables
    <3>3. p \in Evaluated(file, obs) => obs[p[2]].remaining \in Int
      <4> SUFFICES ASSUME p \in Evaluated(file, obs) PROVE obs[p[2]].remaining \in Int
        OBVIOUS
      <4>1. obs \in Answer
        BY <3>1 DEF PassInv, Coverage
      <4>2. p[2] \in DOMAIN obs /\ obs[p[2]].remaining # NoWindow
        BY DEF Evaluated, Emits
      <4>3. QED
        BY <4>1, <4>2, AnswerAssumption DEF Reading
    <3>4. QED
      BY <2>1, <3>1, <3>2, <3>3, MarginAssumption DEF Line, Apply, Fire, Clear, NoCrossing, tables
  <2>2. CASE ClearMissingState(p)
    <3>1. p \notin seen /\ todo = {}
      BY <2>2, NoPairIsNone DEF PassInv, MissingRows, ClearMissingState, TypeOK
    <3>2. p \notin Evaluated(file, obs)
      BY <2>2, <3>1 DEF PassInv, Coverage, ClearMissingState
    <3>3. QED
      BY <2>2, <3>2 DEF ClearMissingState
  <2>3. CASE ~Apply(p) /\ ~ClearMissingState(p)
    BY <2>3 DEF Next, Begin, Apply, Fire, Clear, NoCrossing, ClearMissingState, Mail, SelectMissing,
       ClearMissingIncident, EndMissing, Beat, End, Break, tables
  <2>4. QED
    BY <2>1, <2>2, <2>3
<1>2. QED
  BY <1>1, PassInductive, PTL DEF Spec, Hysteresis
=============================================================================
