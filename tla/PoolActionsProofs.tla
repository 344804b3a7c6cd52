------------------------- MODULE PoolActionsProofs -------------------------
(***************************************************************************)
(* Theorems about PoolActions for every number of calls.                   *)
(***************************************************************************)
EXTENDS PoolActions, TLAPS

\* The gateway's side of each call, and what the console made of it.
CallInv ==
  \A c \in Call : /\ runs[c] = IF request[c] = "done" THEN 1 ELSE 0
                  /\ result[c] = "ok" => request[c] = "done"

-----------------------------------------------------------------------------
(* Type correctness. *)

LEMMA TypeInit == Init => TypeOK
<1> SUFFICES ASSUME Init  PROVE TypeOK
  OBVIOUS
<1>1. /\ sent \in 0..MaxCalls /\ pending \in 0..sent
      /\ "refresh" \in Kinds /\ covers \subseteq Answered /\ shows \subseteq Answered
  BY BoundAssumption DEF Init, Kinds, NoCall
<1>2. /\ request \in [Call -> {"none", "sent", "done", "refused"}]
      /\ result \in [Call -> {"waiting", "ok", "failed", "rejected"}]
      /\ runs \in [Call -> Nat] /\ kind \in [Call -> Kinds]
      /\ \A c \in Call : request[c] = "none" /\ result[c] = "waiting"
  BY <1>1 DEF Init
<1> QED  BY <1>1, <1>2 DEF Init, TypeOK

\* A transition that makes no call, and one that does.
LEMMA ActType ==
  ASSUME TypeOK, NEW k \in Kinds, Act(k), confirming' \in BOOLEAN, Card
  PROVE  TypeOK'
<1> USE DEF gateway, calls, card, loading, shown
<1>c. Card'
  BY DEF Act, Card
<1>1. CASE pending # NoCall
  <2>1. UNCHANGED <<gateway, calls, pending, outcome, loading, shown>>
    BY <1>1 DEF Act
  <2>2. Answered' = Answered
    BY <2>1 DEF Answered
  <2> QED  BY <1>c, <2>1, <2>2 DEF TypeOK
<1>2. CASE pending = NoCall
  <2> DEFINE n == sent + 1
  <2>1. /\ sent < MaxCalls /\ sent' = n /\ pending' = n /\ outcome' = "none"
        /\ kind' = [kind EXCEPT ![n] = k]
        /\ request' = [request EXCEPT ![n] = "sent"]
        /\ UNCHANGED <<cooling, runs, result, loading, shown>>
    BY <1>2 DEF Act
  <2>2. sent \in Nat /\ MaxCalls \in Nat /\ n \in Call /\ n \in 0..MaxCalls /\ n \in 0..n
    BY <2>1, BoundAssumption DEF TypeOK, Call
  <2>3. Answered' = Answered
    <3>1. \A c : c \in 1..n <=> c \in 1..sent \/ c = n
      BY <2>2
    <3>2. result[n] = "waiting"
      BY <2>2 DEF TypeOK
    <3> QED  BY <2>1, <3>1, <3>2 DEF Answered
  <2>4. \A c \in Call : c > n => c > sent /\ c # n
    BY <2>2 DEF Call
  <2>5. \A c \in Call : c > sent' => request'[c] = "none" /\ result'[c] = "waiting"
    BY <2>1, <2>4 DEF TypeOK
  <2>6. kind' \in [Call -> Kinds]
    BY <2>1 DEF TypeOK
  <2>7. request' \in [Call -> {"none", "sent", "done", "refused"}]
    BY <2>1 DEF TypeOK
  <2> QED  BY <1>c, <2>1, <2>2, <2>3, <2>5, <2>6, <2>7 DEF TypeOK
<1> QED  BY <1>1, <1>2

\* An answered call stays answered.
LEMMA ResultStep ==
  ASSUME TypeOK, NEW c \in Call, c <= sent, result[c] = "waiting",
         NEW r \in {"ok", "failed", "rejected"}, result' = [result EXCEPT ![c] = r], sent' = sent
  PROVE  /\ result' \in [Call -> {"waiting", "ok", "failed", "rejected"}]
         /\ Answered' = Answered \union {c}
         /\ \A d \in Call : d > sent => result'[d] = "waiting"
<1>1. /\ result \in [Call -> {"waiting", "ok", "failed", "rejected"}] /\ c \in 1..sent
      /\ sent \in Nat /\ 1..sent \subseteq Call
  BY BoundAssumption DEF TypeOK, Call
<1>2. \A d \in Call : d > sent => result[d] = "waiting" /\ d # c
  BY <1>1 DEF TypeOK, Call
<1> QED  BY <1>1, <1>2 DEF Answered

LEMMA SettleType ==
  ASSUME TypeOK, NEW c \in Call, c <= sent, result[c] = "waiting",
         NEW r \in {"ok", "failed"}, Settle(c, r), UNCHANGED gateway
  PROVE  TypeOK'
<1> USE DEF gateway, calls, card, loading, shown
<1>1. /\ result' = [result EXCEPT ![c] = r] /\ outcome' = (IF pending = c THEN r ELSE outcome)
      /\ load' \in {load, "asked"} /\ UNCHANGED <<loaded, covers>>
      /\ UNCHANGED <<gateway, sent, kind, pending, confirming, shown>>
  BY DEF Settle, Invalidate
<1>2. /\ result' \in [Call -> {"waiting", "ok", "failed", "rejected"}]
      /\ Answered' = Answered \union {c}
      /\ \A d \in Call : d > sent => result'[d] = "waiting"
  BY <1>1, ResultStep
<1>3. ~Card => pending # c
  BY DEF TypeOK, NoCall, Call
<1>4. outcome' \in {"none", "ok", "failed"} /\ (~Card => outcome' = "none") /\ Card' = Card
  BY <1>1, <1>3 DEF TypeOK, Card
<1> QED  BY <1>1, <1>2, <1>4 DEF TypeOK

LEMMA TypeStep == TypeOK /\ [Next]_vars => TypeOK'
<1> SUFFICES ASSUME TypeOK, [Next]_vars  PROVE TypeOK'
  OBVIOUS
<1> USE DEF gateway, calls, card, loading, shown
<1>k. {"reset", "refresh", "websockets"} = Kinds
  BY DEF Kinds
<1>s. Answered \subseteq Answered /\ {} \subseteq Answered /\ NoCall \in 0..sent
  BY DEF TypeOK, NoCall
<1>1. CASE ClickReset \/ Cancel
  <2>1. UNCHANGED <<gateway, calls, pending, outcome, loading, shown>> /\ confirming' \in BOOLEAN
    BY <1>1 DEF ClickReset, Cancel
  <2>2. Answered' = Answered /\ Card /\ Card'
    BY <1>1, <2>1 DEF ClickReset, Cancel, Answered, Card
  <2> QED  BY <2>1, <2>2 DEF TypeOK
<1>2. CASE ConfirmReset
  BY <1>2, <1>k, ActType DEF ConfirmReset
<1>3. CASE ClickRefresh
  BY <1>3, <1>k, ActType DEF ClickRefresh, TypeOK
<1>4. CASE ClickWebsockets
  BY <1>4, <1>k, ActType DEF ClickWebsockets, TypeOK
<1>5. CASE GatewayMoves
  <2>1. cooling' \in BOOLEAN
    BY <1>5 DEF GatewayMoves
  <2>2. UNCHANGED <<request, runs, calls, card, loading, shown>> /\ Answered' = Answered /\ Card' = Card
    BY <1>5 DEF GatewayMoves, Answered, Card
  <2> QED  BY <2>1, <2>2 DEF TypeOK
<1>6. CASE Refresh \/ OtherSettles
  <2>1. UNCHANGED <<gateway, calls, card, shown, loaded, covers>> /\ load' \in {load, "asked"}
    BY <1>6 DEF Refresh, OtherSettles, Invalidate
  <2>2. Answered' = Answered /\ Card' = Card
    BY <2>1 DEF Answered, Card
  <2> QED  BY <2>1, <2>2 DEF TypeOK
<1>7. CASE LoadRead
  <2>1. /\ load' = "read" /\ loaded' = cooling /\ covers' = Answered
        /\ UNCHANGED <<gateway, calls, card, shown>> /\ Answered' = Answered /\ Card' = Card
    BY <1>7 DEF LoadRead, Answered, Card
  <2> QED  BY <2>1 DEF TypeOK
<1>8. CASE LoadShow
  <2>1. /\ view' = loaded /\ page' = "cards" /\ shows' = covers
        /\ load' = "idle" /\ loaded' = view' /\ covers' = {}
        /\ UNCHANGED <<gateway, calls, card, broken>> /\ Answered' = Answered
    BY <1>8 DEF LoadShow, Loaded, Answered
  <2>2. ~Card' => ~Card
    BY <2>1 DEF Card
  <2> QED  BY <2>1, <2>2 DEF TypeOK
<1>9. CASE LoadFails
  BY <1>9, <1>s DEF LoadFails, Loaded, Unmount, TypeOK, Answered
<1>16. CASE EndTransition
  BY <1>16, <1>s DEF EndTransition, TypeOK, Answered, Card
<1>10. CASE Retry
  <2>1. Answered' = Answered /\ UNCHANGED <<gateway, calls, card, view, page, shows>>
    BY <1>10 DEF Retry, Answered
  <2>2. \/ page = "fault" /\ Invalidate /\ UNCHANGED broken
        \/ broken /\ broken' = FALSE /\ UNCHANGED loading
    BY <1>10 DEF Retry
  <2>3. ~Card' => ~Card
    BY <2>1, <2>2 DEF Card
  <2> QED  BY <2>1, <2>2, <2>3 DEF Invalidate, TypeOK
<1>11. ASSUME NEW c \in Call, Execute(c)  PROVE TypeOK'
  <2>1. c <= sent
    BY <1>11, BoundAssumption DEF Execute, TypeOK, Call
  <2>2. runs' \in [Call -> Nat] /\ request' \in [Call -> {"none", "sent", "done", "refused"}]
        /\ \A d \in Call : d > sent => request'[d] = "none"
    BY <1>11, <2>1 DEF Execute, TypeOK
  <2>3. cooling' \in BOOLEAN
    BY <1>11 DEF Execute
  <2>4. UNCHANGED <<calls, card, loading, shown>> /\ Answered' = Answered
    BY <1>11 DEF Execute, Answered
  <2> QED  BY <2>2, <2>3, <2>4 DEF TypeOK, Card
<1>12. ASSUME NEW c \in Call, Refuse(c)  PROVE TypeOK'
  <2>1. c <= sent
    BY <1>12, BoundAssumption DEF Refuse, TypeOK, Call
  <2> QED  BY <1>12, <2>1 DEF Refuse, TypeOK, Answered, Card
<1>13. ASSUME NEW c \in Call, Answer(c) \/ Unreadable(c) \/ TimeOut(c)  PROVE TypeOK'
  <2>1. PICK r \in {"ok", "failed"} : Settle(c, r)
    BY <1>13 DEF Answer, Unreadable, TimeOut, Outcome
  <2> QED  BY <1>13, <2>1, SettleType DEF Answer, Unreadable, TimeOut
<1>14. ASSUME NEW c \in Call, Reject(c)  PROVE TypeOK'
  <2>1. /\ result' \in [Call -> {"waiting", "ok", "failed", "rejected"}]
        /\ Answered' = Answered \union {c}
        /\ \A d \in Call : d > sent => result'[d] = "waiting"
    BY <1>14, ResultStep DEF Reject
  <2>2. /\ UNCHANGED <<gateway, sent, kind, view, page, shows, loading>>
        /\ \/ broken' = TRUE /\ Unmount
           \/ UNCHANGED <<broken, card>>
    BY <1>14 DEF Reject
  <2>3. covers \subseteq Answered' /\ shows \subseteq Answered'
    BY <2>1 DEF TypeOK
  <2>4. \A d \in Call : d > sent => request[d] = "none"
    BY DEF TypeOK
  <2>5. CASE broken' = TRUE /\ Unmount
    BY <1>s, <2>1, <2>2, <2>3, <2>4, <2>5 DEF TypeOK, Unmount
  <2>6. CASE UNCHANGED <<broken, card>>
    <3>1. Card' = Card
      BY <2>2, <2>6 DEF Card
    <3> QED  BY <2>1, <2>2, <2>3, <2>4, <2>6, <3>1 DEF TypeOK
  <2> QED  BY <2>2, <2>5, <2>6
<1>15. CASE UNCHANGED vars
  BY <1>15 DEF vars, TypeOK, Answered, Card
<1> QED
  BY <1>1, <1>2, <1>3, <1>4, <1>5, <1>6, <1>7, <1>8, <1>9, <1>10, <1>11, <1>12,
     <1>13, <1>14, <1>15, <1>16 DEF Next

\* Type correctness holds in every reachable state.
THEOREM PoolActionsTypeCorrect == Spec => []TypeOK
BY TypeInit, TypeStep, PTL DEF Spec

-----------------------------------------------------------------------------
(* At most once. *)

LEMMA CallInit == Init => CallInv
BY DEF Init, CallInv

LEMMA CallStep == TypeOK /\ CallInv /\ [Next]_vars => CallInv'
<1> SUFFICES ASSUME TypeOK, CallInv, [Next]_vars  PROVE CallInv'
  OBVIOUS
<1> USE DEF gateway, calls, card, loading, shown, CallInv
<1>act. ASSUME NEW k \in Kinds, Act(k)  PROVE CallInv'
  <2>1. CASE pending # NoCall
    BY <1>act, <2>1 DEF Act
  <2>2. CASE pending = NoCall
    <3>1. /\ sent < MaxCalls /\ request' = [request EXCEPT ![sent + 1] = "sent"]
          /\ UNCHANGED <<runs, result>>
      BY <1>act, <2>2 DEF Act
    <3>2. sent + 1 \in Call => request[sent + 1] = "none" /\ result[sent + 1] = "waiting"
      BY DEF TypeOK, Call
    <3> QED  BY <3>1, <3>2 DEF TypeOK
  <2> QED  BY <2>1, <2>2
<1>1. CASE ConfirmReset \/ ClickRefresh \/ ClickWebsockets
  BY <1>1, <1>act DEF ConfirmReset, ClickRefresh, ClickWebsockets, Kinds
<1>2. ASSUME NEW c \in Call, Execute(c)  PROVE CallInv'
  BY <1>2 DEF Execute, TypeOK
<1>3. ASSUME NEW c \in Call, Refuse(c)  PROVE CallInv'
  BY <1>3 DEF Refuse, TypeOK
<1>4. ASSUME NEW c \in Call, Answer(c)  PROVE CallInv'
  BY <1>4 DEF Answer, Settle, Outcome, TypeOK
<1>5. ASSUME NEW c \in Call, Unreadable(c) \/ TimeOut(c) \/ Reject(c)  PROVE CallInv'
  <2>1. UNCHANGED <<request, runs>> /\ \A d \in Call : result'[d] = "ok" => result[d] = "ok"
    BY <1>5 DEF Unreadable, TimeOut, Reject, Settle, TypeOK
  <2> QED  BY <2>1
<1>6. CASE \/ ClickReset \/ Cancel \/ GatewayMoves \/ EndTransition \/ Refresh \/ OtherSettles
           \/ LoadRead \/ LoadShow \/ LoadFails \/ Retry \/ UNCHANGED vars
  <2>1. UNCHANGED <<request, runs, result>>
    BY <1>6 DEF ClickReset, Cancel, GatewayMoves, EndTransition, Refresh, OtherSettles,
                LoadRead, LoadShow, LoadFails, Retry, vars
  <2> QED  BY <2>1
<1> QED  BY <1>1, <1>2, <1>3, <1>4, <1>5, <1>6 DEF Next

\* api.ts:202: however calls time out, are lost or are repeated, the gateway does
\* each at most once, and an ok outcome means it did.
THEOREM EachCallDoneAtMostOnce == Spec => []DoneAtMostOnce
<1>1. CallInv => DoneAtMostOnce
  BY DEF CallInv, DoneAtMostOnce
<1> QED  BY <1>1, TypeInit, TypeStep, CallInit, CallStep, PTL DEF Spec
=============================================================================
