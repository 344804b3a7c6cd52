------------------------------ MODULE Alerts ------------------------------
(***************************************************************************)
(* One evaluation pass after another: server/alerts/run.ts runAlerts, with *)
(* evaluate.ts, the writes of store.ts (applyCondition, clearMissing), the *)
(* mail of email.ts and the heartbeats of deliver.ts.  A pass is a chain   *)
(* of statements, transactions and posts; it may break off between any two *)
(* of them, when a statement fails or the process dies, and the next pass  *)
(* starts over from the database.                                          *)
(*                                                                         *)
(* The gateway's answer is any assignment of a remaining level (or no      *)
(* window) and a status to any of the credentials; the rules file is       *)
(* re-read by every pass and may have changed.                             *)
(***************************************************************************)
EXTENDS Integers

CONSTANTS
  Rule, Credential,
  Kind,         \* [Rule -> Kinds]
  Scope,        \* [Rule -> SUBSET Credential], inScope
  Heartbeat,    \* the rules with a heartbeat url
  Below,        \* remainingBelow of the remaining rules
  ClearMargin,  \* CLEAR_MARGIN
  Answer,       \* pools answers: for each credential present, a Reading
  Outage,       \* pools = null: the gateway could not be read
  NoWindow,     \* the rule's window is not among the credential's
  RuleFile,     \* what a pass may find in GATEWAI_ALERTS_FILE
  Unusable,     \* a file that is absent, unreadable, or not one of rules with ids of their own
  MaxBreaks     \* bound: passes that break off

Kinds == {"remaining", "cooldown", "unhealthy", "stalled"}
Collector == "collector"
Statuses == {"active", "cooling", "limited", "disabled", "error"}
Subject == Credential \union {Collector}
Pair == Rule \X Subject

ASSUME RuleAssumption == Kind \in [Rule -> Kinds] /\ Scope \in [Rule -> SUBSET Credential]
ASSUME FileAssumption == RuleFile \subseteq (SUBSET Rule) \union {Unusable} /\ Heartbeat \subseteq Rule
ASSUME WindowAssumption == NoWindow \notin Int
ASSUME MarginAssumption == Below \in Int /\ ClearMargin \in Nat
ASSUME OutageAssumption == Outage \notin Answer
ASSUME BreakAssumption == MaxBreaks \in Nat

VARIABLES
  firing,       \* alert_state: the pairs with firing = 1
  open,         \* alert_incidents: open incidents of each pair
  pc,           \* what the pass does next
  file,         \* rules of the pass
  obs,          \* the pools answer of the pass, as far as the rules read it
  todo,         \* evaluated pairs not applied yet
  verdict,      \* evaluated pairs that fire
  seen,         \* pairs applied
  current,      \* the pair being mailed about, or being cleared
  missing,      \* rows clearMissing has still to clear
  beats,        \* rules whose heartbeat is still to be posted
  beat,         \* history: what the last heartbeat of a rule said
  fresh,        \* history: rules whose heartbeat the running or last pass posted
  torn,         \* history: pairs left between clearMissing's two statements
  breaks

tables  == <<firing, open>>
pass    == <<pc, file, obs, todo, verdict, seen, current, missing, beats>>
history == <<beat, fresh, torn, breaks>>
vars == <<tables, pass, history>>

NoPair == <<>>

-----------------------------------------------------------------------------
(* evaluate *)

\* What the rules read of a credential: 100 minus usedPercent of the rules' window.
Reading == [remaining : Int \union {NoWindow}, status : Statuses]

ASSUME AnswerAssumption ==
  \A o \in Answer : DOMAIN o \subseteq Credential /\ \A c \in DOMAIN o : o[c] \in Reading

\* The credential pairs a rule emits a condition for: those in scope that the
\* answer reports, and for a remaining rule with the rule's window.
Emits(r, o) ==
  IF Kind[r] = "stalled" THEN {<<r, Collector>>}
  ELSE {<<r, c>> : c \in {d \in Scope[r] \intersect DOMAIN o :
                            Kind[r] = "remaining" => o[d].remaining # NoWindow}}

\* Mutant: one line for both directions.
LineWithoutMargin(was) == Below

\* A remaining rule that fires keeps firing up to the line plus the margin.
Line(was) == IF was THEN Below + ClearMargin ELSE Below

Fires(r, reading, was) ==
  \/ Kind[r] = "remaining" /\ reading.remaining < Line(was)
  \/ Kind[r] = "cooldown" /\ reading.status = "cooling"
  \/ Kind[r] = "unhealthy" /\ reading.status \in {"disabled", "error", "limited"}

Evaluated(rules, o) == UNION {Emits(r, o) : r \in rules}

\* overdue: the anchor of the stalled rules is older than their minutes.
Verdict(rules, o, overdue) ==
  {p \in Evaluated(rules, o) :
     IF Kind[p[1]] = "stalled" THEN overdue ELSE Fires(p[1], o[p[2]], p \in firing)}

Stalled(rules) == {r \in rules : Kind[r] = "stalled"}

-----------------------------------------------------------------------------
(* runAlerts *)

\* One rule that does not decode takes all the others with it.
AlertRules(content) == IF content = Unusable THEN {} ELSE content

\* No rules end the pass before it touches anything, so only a pass with rules is a
\* step.  Without pools only the collector's rules are evaluated.
Begin ==
  /\ pc = "idle"
  /\ \E rules \in {AlertRules(content) : content \in RuleFile} \ {{}},
       reachable \in BOOLEAN, overdue \in BOOLEAN :
       \E o \in IF reachable THEN Answer ELSE {Outage} :
         LET applicable == IF reachable THEN rules ELSE Stalled(rules)
         IN  /\ file' = rules /\ obs' = o
             /\ todo' = Evaluated(applicable, o)
             /\ verdict' = Verdict(applicable, o, overdue)
             /\ pc' = IF reachable THEN "apply" ELSE "applyOutage"
  /\ fresh' = {}
  /\ UNCHANGED <<tables, seen, current, missing, beats, beat, torn, breaks>>

Applying == pc \in {"apply", "applyOutage"}

\* Mutant: a pair that fires already opens another incident.
FireAgain(p) ==
  /\ p \in verdict
  /\ firing' = firing \union {p}
  /\ open' = [open EXCEPT ![p] = @ + 1]
  /\ UNCHANGED torn

\* applyCondition, one transaction: a crossing opens an incident or closes every
\* open one of the pair; then, and only then, comes the mail.
Fire(p) ==
  /\ p \in verdict /\ p \notin firing
  /\ firing' = firing \union {p}
  /\ open' = [open EXCEPT ![p] = @ + 1]
  /\ UNCHANGED torn

Clear(p) ==
  /\ p \notin verdict /\ p \in firing
  /\ firing' = firing \ {p}
  /\ open' = [open EXCEPT ![p] = 0]
  /\ torn' = torn \ {p}

NoCrossing(p) ==
  /\ p \in verdict <=> p \in firing
  /\ UNCHANGED <<tables, torn>>

Apply(p) ==
  /\ Applying /\ current = NoPair /\ p \in todo
  /\ todo' = todo \ {p} /\ seen' = seen \union {p}
  /\ \/ (Fire(p) \/ Clear(p)) /\ current' = p
     \/ NoCrossing(p) /\ UNCHANGED current
  /\ UNCHANGED <<pc, file, obs, verdict, missing, beats, beat, fresh, breaks>>

\* sendEmail about the crossing just committed: tried once; whether it succeeds
\* changes nothing.
Mail ==
  /\ Applying /\ current # NoPair
  /\ current' = NoPair
  /\ UNCHANGED <<tables, pc, file, obs, todo, verdict, seen, missing, beats, beat, fresh, torn, breaks>>

\* Mutant: clearMissing looks at the rules of the file only.
SelectMissingOfFile ==
  /\ Applying /\ current = NoPair /\ todo = {}
  /\ \/ /\ pc = "apply"
        /\ pc' = "missing"
        /\ missing' = {p \in firing \ seen : p[1] \in file}
        /\ UNCHANGED beats
     \/ /\ pc = "applyOutage"
        /\ pc' = "beat"
        /\ beats' = file \intersect Heartbeat
        /\ UNCHANGED missing
  /\ UNCHANGED <<tables, file, obs, todo, verdict, seen, current, history>>

\* Mutant: clearMissing runs without pools too.
SelectMissingAlways ==
  /\ Applying /\ current = NoPair /\ todo = {}
  /\ pc' = "missing"
  /\ missing' = firing \ seen
  /\ UNCHANGED <<tables, file, obs, todo, verdict, seen, current, beats, history>>

\* clearMissing reads the firing rows once; an outage pass skips it.
SelectMissing ==
  /\ Applying /\ current = NoPair /\ todo = {}
  /\ \/ /\ pc = "apply"
        /\ pc' = "missing"
        /\ missing' = firing \ seen
        /\ UNCHANGED beats
     \/ /\ pc = "applyOutage"
        /\ pc' = "beat"
        /\ beats' = file \intersect Heartbeat
        /\ UNCHANGED missing
  /\ UNCHANGED <<tables, file, obs, todo, verdict, seen, current, history>>

\* Two statements for each such row, in no transaction, and no mail.
ClearMissingState(p) ==
  /\ pc = "missing" /\ current = NoPair /\ p \in missing
  /\ firing' = firing \ {p}
  /\ current' = p
  /\ UNCHANGED <<open, pc, file, obs, todo, verdict, seen, missing, beats, history>>

ClearMissingIncident ==
  /\ pc = "missing" /\ current # NoPair
  /\ open' = [open EXCEPT ![current] = 0]
  /\ torn' = torn \ {current}
  /\ missing' = missing \ {current}
  /\ current' = NoPair
  /\ UNCHANGED <<firing, pc, file, obs, todo, verdict, seen, beats, beat, fresh, breaks>>

EndMissing ==
  /\ pc = "missing" /\ current = NoPair /\ missing = {}
  /\ pc' = "beat"
  /\ beats' = file \intersect Heartbeat
  /\ UNCHANGED <<tables, file, obs, todo, verdict, seen, current, missing, history>>

\* Mutant: the verdicts of the pass decide, not the table.
BeatFromVerdict(r) ==
  /\ pc = "beat" /\ r \in beats
  /\ beats' = beats \ {r}
  /\ \/ /\ beat' = [beat EXCEPT ![r] = IF \E s \in Subject : <<r, s>> \in verdict
                                       THEN "fail" ELSE "ok"]
        /\ fresh' = fresh \union {r}
     \/ UNCHANGED <<beat, fresh>>
  /\ UNCHANGED <<tables, pc, file, obs, todo, verdict, seen, current, missing, torn, breaks>>

\* The rule's firing rows decide between <url>/fail and <url>; a failed post is
\* logged and the next rule's follows.
Beat(r) ==
  /\ pc = "beat" /\ r \in beats
  /\ beats' = beats \ {r}
  /\ \/ /\ beat' = [beat EXCEPT ![r] = IF \E s \in Subject : <<r, s>> \in firing
                                       THEN "fail" ELSE "ok"]
        /\ fresh' = fresh \union {r}
     \/ UNCHANGED <<beat, fresh>>
  /\ UNCHANGED <<tables, pc, file, obs, todo, verdict, seen, current, missing, torn, breaks>>

\* Mutant: seen outlives the pass.
ResetKeepsSeen ==
  /\ pc' = "idle" /\ file' = {} /\ obs' = Outage /\ todo' = {} /\ verdict' = {}
  /\ current' = NoPair /\ missing' = {} /\ beats' = {} /\ UNCHANGED seen

Reset == /\ pc' = "idle" /\ file' = {} /\ obs' = Outage /\ todo' = {} /\ verdict' = {}
         /\ seen' = {} /\ current' = NoPair /\ missing' = {} /\ beats' = {}

End ==
  /\ pc = "beat" /\ beats = {}
  /\ Reset
  /\ UNCHANGED <<tables, history>>

\* A statement fails, or the process dies: what is committed stays.
Break ==
  /\ pc # "idle"
  /\ breaks < MaxBreaks /\ breaks' = breaks + 1
  /\ Reset
  /\ fresh' = {}
  /\ torn' = IF pc = "missing" /\ current # NoPair THEN torn \union {current} ELSE torn
  /\ UNCHANGED <<tables, beat>>

-----------------------------------------------------------------------------
Init ==
  /\ firing = {} /\ open = [p \in Pair |-> 0]
  /\ pc = "idle" /\ file = {} /\ obs = Outage /\ todo = {} /\ verdict = {}
  /\ seen = {} /\ current = NoPair /\ missing = {} /\ beats = {}
  /\ beat = [r \in Rule |-> "nothing"]
  /\ fresh = {} /\ torn = {} /\ breaks = 0

Next ==
  \/ Begin
  \/ \E p \in Pair : Apply(p) \/ ClearMissingState(p)
  \/ Mail \/ SelectMissing \/ ClearMissingIncident \/ EndMissing
  \/ \E r \in Rule : Beat(r)
  \/ End \/ Break

Spec == Init /\ [][Next]_vars
-----------------------------------------------------------------------------
(* Properties. *)

TypeOK ==
  /\ firing \subseteq Pair /\ open \in [Pair -> Nat]
  /\ pc \in {"idle", "apply", "applyOutage", "missing", "beat"}
  /\ file \subseteq Rule
  /\ todo \subseteq Pair /\ verdict \subseteq Pair /\ seen \subseteq Pair
  /\ current \in Pair \union {NoPair}
  /\ missing \subseteq Pair /\ beats \subseteq Heartbeat
  /\ beat \in [Rule -> {"nothing", "fail", "ok"}] /\ fresh \subseteq Heartbeat
  /\ torn \subseteq Pair /\ breaks \in 0..MaxBreaks
  /\ pc = "idle" => todo = {} /\ seen = {} /\ missing = {} /\ current = NoPair

\* A pair that fires always has an incident to show for it, wherever a pass
\* breaks off (store.ts applyCondition, clearMissing).
FiringHasIncident == \A p \in firing : open[p] >= 1

\* And never more than one, nor one left behind by a clear, unless a pass broke
\* off between the two statements of clearMissing for that very pair.
IncidentsMatch ==
  \A p \in Pair \ torn :
    open[p] = IF p \in firing \/ (pc = "missing" /\ current = p) THEN 1 ELSE 0

\* When a pass with pools has run clearMissing, alert_state says exactly what the
\* pass evaluated: pairs of vanished credentials, windows and rules included.
FullPassSettles ==
  pc = "missing" /\ missing = {} /\ current = NoPair => firing = verdict

\* Between passes, what the last post to a heartbeat said is what alert_state
\* holds (run.ts: "every pass posts each rule's current state").
HeartbeatTrue ==
  pc = "idle" =>
    \A r \in fresh : beat[r] = "fail" <=> \E s \in Subject : <<r, s>> \in firing

\* "credential subjects are left as they were rather than cleared" when the
\* gateway could not be read (run.ts runAlerts), incidents included.
OutageLeavesCredentials ==
  [][pc # "idle" /\ obs = Outage =>
       \A p \in Pair : Kind[p[1]] # "stalled" =>
         /\ p \in firing' <=> p \in firing
         /\ open'[p] = open[p]]_vars

\* A remaining rule fires below its line only, and once it fires no observation
\* below the line plus the margin clears it (evaluate.ts, "jitter around the line
\* never refires"); a pair the pass did not evaluate may clear.
Hysteresis ==
  [][\A p \in Pair : Kind[p[1]] = "remaining" =>
       /\ p \in firing' \ firing => obs[p[2]].remaining < Below
       /\ p \in firing \ firing' =>
            \/ p \notin Evaluated(file, obs)
            \/ obs[p[2]].remaining >= Below + ClearMargin]_vars

\* "a subject that disappears from the pool clears and closes its incident"
\* (alerts.test.ts): between passes no open incident belongs to a quiet pair.
NoOrphanIncident == pc = "idle" => \A p \in Pair : open[p] > 0 => p \in firing
=============================================================================
