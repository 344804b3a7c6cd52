---------------------------- MODULE PoolActions ----------------------------
(***************************************************************************)
(* An operator's actions on one credential, from the click to the reload:  *)
(* the card of components/pools/card.tsx with its pending action, its      *)
(* confirmation and its outcome; the server functions of functions/pools.ts*)
(* and the one request each sends through server/management/api.ts; the    *)
(* gateway that may do it, refuse it, lose it, or do it after the console  *)
(* gave up; and the loader that re-reads the pools after an action and on  *)
(* the page's timer (routes/index.tsx, hooks/use-auto-refresh.ts).         *)
(*                                                                         *)
(* A click that sends something is a call.  A reload runs in the           *)
(* background: an action ends without waiting for it.  A load that fails,  *)
(* or an action whose server function cannot be reached, takes the card    *)
(* and its state off the page; its call goes on.                           *)
(* The gateway, the router and React are external.                         *)
(***************************************************************************)
EXTENDS Integers

CONSTANT
  MaxCalls      \* bound: clicks that send something

ASSUME BoundAssumption == MaxCalls \in Nat

Call == 1..MaxCalls
NoCall == 0
Kinds == {"reset", "refresh", "websockets"}

VARIABLES
  cooling,      \* the credential at the gateway: is it cooling?
  sent,         \* calls made so far: 1..sent
  kind,         \* what each asks for
  request,      \* each call's request at the gateway
  result,       \* its server function's result
  runs,         \* history: how often the gateway did what it asks for
  view,         \* loader data: is the credential shown as cooling?
  page,         \* loader data: "cards", a "fault", or "lost" when the loader threw
  broken,       \* does the error boundary hold the rejection of an action?
  pending,      \* the card's running transition: its call
  outcome,      \* the card's outcome
  confirming,   \* the card's two-step reset
  load,         \* the router's load
  loaded,       \* what it read
  covers,       \* history: calls answered before that read
  shows         \* history: calls answered before the read of view

gateway == <<cooling, request, runs>>
calls   == <<sent, kind, result>>
card    == <<pending, outcome, confirming>>
loading == <<load, loaded, covers>>
shown   == <<view, page, broken, shows>>
vars == <<gateway, calls, card, loading, shown>>

Answered == {c \in 1..sent : result[c] # "waiting"}

\* The pools page is mounted, and the card on it.
Mounted == page # "lost" /\ ~broken
Card == page = "cards" /\ ~broken

-----------------------------------------------------------------------------
(* The card. *)

\* A card that leaves the page has no state, and one that is mounted starts so.
Unmount == pending' = NoCall /\ outcome' = "none" /\ confirming' = FALSE

\* act: nothing while an action is pending, else the server function posts.
Act(k) ==
  /\ IF pending # NoCall THEN UNCHANGED <<sent, kind, request, pending, outcome>>
     ELSE /\ sent < MaxCalls /\ sent' = sent + 1
          /\ kind' = [kind EXCEPT ![sent + 1] = k]
          /\ request' = [request EXCEPT ![sent + 1] = "sent"]
          /\ pending' = sent + 1 /\ outcome' = "none"
  /\ UNCHANGED <<cooling, runs, result, loading, shown>>

\* The first click on a reset asks, the second resets.
ClickReset ==
  /\ Card /\ view /\ ~confirming
  /\ confirming' = TRUE
  /\ UNCHANGED <<gateway, calls, pending, outcome, loading, shown>>

ConfirmReset ==
  /\ Card /\ view /\ confirming
  /\ confirming' = FALSE
  /\ Act("reset")

Cancel ==
  /\ Card /\ view /\ confirming
  /\ confirming' = FALSE
  /\ UNCHANGED <<gateway, calls, pending, outcome, loading, shown>>

ClickRefresh ==
  /\ Card /\ UNCHANGED confirming /\ Act("refresh")

\* What the toggle asks for is the opposite of what is shown, and makes no difference
\* to the reset.
ClickWebsockets ==
  /\ Card /\ UNCHANGED confirming /\ Act("websockets")

-----------------------------------------------------------------------------
(* The gateway. *)

\* A cooldown starts, or ends, without the console.
GatewayMoves ==
  /\ cooling' = ~cooling
  /\ UNCHANGED <<request, runs, calls, card, loading, shown>>

\* At any time, also after the console gave up; a request that is lost is one
\* for which this never comes.
Execute(c) ==
  /\ request[c] = "sent"
  /\ request' = [request EXCEPT ![c] = "done"]
  /\ runs' = [runs EXCEPT ![c] = @ + 1]
  /\ cooling' = (cooling /\ kind[c] # "reset")
  /\ UNCHANGED <<calls, card, loading, shown>>

\* An error status, or a refresh that reports ok false.
Refuse(c) ==
  /\ request[c] = "sent"
  /\ request' = [request EXCEPT ![c] = "refused"]
  /\ UNCHANGED <<cooling, runs, calls, card, loading, shown>>

-----------------------------------------------------------------------------
(* The server function's answer, and the reload. *)

\* router.invalidate without sync: a load that already runs is joined, also when it
\* has read the gateway before.
Invalidate ==
  /\ load' = IF load = "idle" THEN "asked" ELSE load
  /\ UNCHANGED <<loaded, covers>>

\* runAction: a refusal and a body of ok false are failures.
Outcome(c) == IF request[c] = "done" THEN "ok" ELSE "failed"

Settle(c, r) ==
  /\ result' = [result EXCEPT ![c] = r]
  /\ outcome' = IF pending = c THEN r ELSE outcome
  /\ Invalidate
  /\ UNCHANGED <<sent, kind, pending, confirming, shown>>

Answer(c) ==
  /\ c <= sent /\ result[c] = "waiting" /\ request[c] \in {"done", "refused"}
  /\ Settle(c, Outcome(c))
  /\ UNCHANGED gateway

\* The gateway did it, but answers with an error or in a shape decodeWith refuses;
\* toManagementError makes no difference between this and what was never done.
Unreadable(c) ==
  /\ c <= sent /\ result[c] = "waiting" /\ request[c] = "done"
  /\ Settle(c, "failed")
  /\ UNCHANGED gateway

\* Mutant: the client retries what timed out.
TimeOutRetries(c) ==
  /\ c <= sent /\ result[c] = "waiting"
  /\ request' = [request EXCEPT ![c] = "sent"]
  /\ UNCHANGED <<cooling, runs, calls, card, loading, shown>>

\* Mutant: a silent gateway is waited for.
TimeOutOfAnswered(c) ==
  /\ c <= sent /\ result[c] = "waiting" /\ request[c] # "sent"
  /\ Settle(c, "failed")
  /\ UNCHANGED gateway

\* The request timeout ends the wait for a reply, and fetch that for a body which
\* stalls: the request may have been done, or may still be.
TimeOut(c) ==
  /\ c <= sent /\ result[c] = "waiting"
  /\ Settle(c, "failed")
  /\ UNCHANGED gateway

\* invalidate() has resolved, which a background load does not hold up: the card
\* is no longer busy, whatever it shows.
EndTransition ==
  /\ pending \in Answered /\ pending' = NoCall
  /\ UNCHANGED <<gateway, calls, outcome, confirming, loading, shown>>

\* The browser loses the console: action() rejects, and the nearest error
\* boundary takes the page; nothing is reloaded.
Reject(c) ==
  /\ c <= sent /\ result[c] = "waiting"
  /\ result' = [result EXCEPT ![c] = "rejected"]
  /\ IF pending = c THEN broken' = TRUE /\ Unmount ELSE UNCHANGED <<broken, card>>
  /\ UNCHANGED <<gateway, sent, kind, view, page, shows, loading>>

\* Mutant: only a fault is looked at again.
RefreshFaults ==
  /\ Mounted /\ page = "fault"
  /\ Invalidate
  /\ UNCHANGED <<gateway, calls, card, shown>>

\* useAutoRefresh: the timer of a visible tab, or a tab that comes back.
Refresh ==
  /\ Mounted
  /\ Invalidate
  /\ UNCHANGED <<gateway, calls, card, shown>>

\* Another card's action reloads when it is answered, whatever the page is by then.
OtherSettles == Invalidate /\ UNCHANGED <<gateway, calls, card, shown>>

\* loadPools asks the gateway.
LoadRead ==
  /\ load = "asked"
  /\ load' = "read" /\ loaded' = cooling /\ covers' = Answered
  /\ UNCHANGED <<gateway, calls, card, shown>>

Loaded == load' = "idle" /\ loaded' = view' /\ covers' = {}

\* A card that was there stays as it is.
LoadShow ==
  /\ load = "read"
  /\ view' = loaded /\ page' = "cards" /\ shows' = covers
  /\ Loaded
  /\ UNCHANGED <<gateway, calls, card, broken>>

\* The gateway fails the read, or the browser loses the console: what was shown is
\* gone.
LoadFails ==
  /\ load \in {"asked", "read"}
  /\ page' \in {"fault", "lost"} /\ Unmount /\ view' = FALSE /\ shows' = {}
  /\ UNCHANGED <<gateway, calls, broken>>
  /\ Loaded

\* The fault's retry reloads; that of the error boundary, or the next reload,
\* renders what the loader has.
Retry ==
  /\ \/ page = "fault" /\ ~broken /\ Invalidate /\ UNCHANGED broken
     \/ broken /\ broken' = FALSE /\ UNCHANGED loading
  /\ UNCHANGED <<gateway, calls, card, view, page, shows>>

-----------------------------------------------------------------------------
Init ==
  /\ cooling \in BOOLEAN
  /\ sent = 0
  /\ kind = [c \in Call |-> "refresh"]
  /\ request = [c \in Call |-> "none"] /\ result = [c \in Call |-> "waiting"]
  /\ runs = [c \in Call |-> 0]
  /\ view = cooling /\ page = "cards" /\ broken = FALSE /\ shows = {}
  /\ pending = NoCall /\ outcome = "none" /\ confirming = FALSE
  /\ load = "idle" /\ loaded = cooling /\ covers = {}

Next ==
  \/ ClickReset \/ ConfirmReset \/ Cancel \/ ClickRefresh \/ ClickWebsockets
  \/ GatewayMoves \/ EndTransition \/ Refresh \/ OtherSettles
  \/ LoadRead \/ LoadShow \/ LoadFails \/ Retry
  \/ \E c \in Call : Execute(c) \/ Refuse(c) \/ Answer(c) \/ Unreadable(c) \/ TimeOut(c)
                     \/ Reject(c)

Spec == Init /\ [][Next]_vars

\* The request timeout always comes, and so do the end of a load and of what awaits
\* it; the timer of a visible tab goes on.  The gateway, the operator and the
\* network owe nothing.
FairSpec ==
  /\ Spec
  /\ \A c \in Call : WF_vars(TimeOut(c))
  /\ WF_vars(EndTransition) /\ WF_vars(Refresh)
  /\ WF_vars(LoadRead) /\ WF_vars(LoadShow)

-----------------------------------------------------------------------------
(* Properties. *)

\* The state is well formed: only calls that were sent have a result, and a card
\* that is not there has no state.
TypeOK ==
  /\ cooling \in BOOLEAN /\ view \in BOOLEAN /\ loaded \in BOOLEAN
  /\ sent \in 0..MaxCalls
  /\ kind \in [Call -> Kinds]
  /\ request \in [Call -> {"none", "sent", "done", "refused"}]
  /\ result \in [Call -> {"waiting", "ok", "failed", "rejected"}]
  /\ \A c \in Call : c > sent => request[c] = "none" /\ result[c] = "waiting"
  /\ runs \in [Call -> Nat]
  /\ page \in {"cards", "fault", "lost"} /\ broken \in BOOLEAN
  /\ pending \in 0..sent /\ outcome \in {"none", "ok", "failed"} /\ confirming \in BOOLEAN
  /\ ~Card => pending = NoCall /\ outcome = "none" /\ ~confirming
  /\ load \in {"idle", "asked", "read"}
  /\ covers \subseteq Answered /\ shows \subseteq Answered

\* api.ts:202, "never retries ... actions are not idempotent": whatever is lost,
\* late or refused, and however often the operator clicks, the gateway does what
\* a call asks for at most once, and has done it when the card says so.
DoneAtMostOnce ==
  \A c \in Call : runs[c] <= 1 /\ (result[c] = "ok" => runs[c] = 1)

\* A card does not stay busy: an action whose card stays is settled by the reply
\* or the timeout.
ActionSettles ==
  \A c \in Call : pending = c ~> pending # c

\* card.tsx:71: the reload an answer asks for may be one that had read the gateway
\* before, so a settled card can show what the action has changed.  It does not
\* stay so: the answer is followed by a view read after it, unless the card goes.
AnswerShows ==
  \A c \in Call : result[c] \in {"ok", "failed"} ~> c \in shows \/ ~Card
=============================================================================
