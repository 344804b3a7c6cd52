-------------------------- MODULE LiveReadProofs --------------------------
(***************************************************************************)
(* Theorems about LiveRead for every set of readers, every wait and every  *)
(* Retry-After a provider may send.                                        *)
(***************************************************************************)
EXTENDS LiveRead, TLAPS

\* The one call: at most one reader runs it, the waiting ones wait for it, and
\* the value in the slot was there before its last request went out.
OneCall ==
  /\ \A r, q \in Reader : call[r] = "calling" /\ call[q] = "calling" => r = q
  /\ NobodyWaitsInVain
  /\ Calling # {} => sent >= slot.value

\* What the slot says of the past: the last value, capped strikes, and a wait
\* that is at least the one asked for, unless that one is over.
SlotTellsHistory ==
  /\ LastGoodKept
  /\ answer = slot.value
  /\ slot.strikes = Smaller(limits, MaxStrikes)
  /\ slot.until >= notBefore \/ now >= notBefore

LiveInv == TypeOK /\ OneCall /\ SlotTellsHistory /\ BackoffRespected

-----------------------------------------------------------------------------

\* A wait is never negative, whatever the header says.
LEMMA WaitIsNat ==
  ASSUME NEW strikes \in 1..MaxStrikes, NEW header \in RetryAfter
  PROVE  Wait(strikes, header) \in Nat
<1>1. header \in Nat \union {None}  BY HeaderAssumption
<1>2. Backoff(strikes) \in Nat /\ BackoffCap \in Nat  BY WaitAssumption
<1>3. (IF header > 0 THEN header ELSE Backoff(strikes)) \in Nat
  BY <1>1, <1>2 DEF None
<1> QED  BY <1>2, <1>3 DEF Wait, Smaller

\* The strikes a 429 is counted with.
LEMMA NextStrikes ==
  ASSUME TypeOK, SlotTellsHistory
  PROVE  /\ Smaller(slot.strikes + 1, MaxStrikes) = Smaller(limits + 1, MaxStrikes)
         /\ Smaller(limits + 1, MaxStrikes) \in 1..MaxStrikes
  BY WaitAssumption DEF TypeOK, SlotTellsHistory, Smaller

\* With one call, its end leaves nobody calling and nobody waiting.
LEMMA FinishEndsAll ==
  ASSUME TypeOK, OneCall, NEW r \in Reader, NEW next, Finish(r, next)
  PROVE  /\ call' \in [Reader -> {"idle"}]
         /\ Calling' = {}
  BY DEF TypeOK, OneCall, Finish, Calling

-----------------------------------------------------------------------------
LEMMA InitLive == Init => LiveInv
  BY WaitAssumption, HeaderAssumption, BoundAssumption
  DEF Init, LiveInv, TypeOK, OneCall, NobodyWaitsInVain, Calling, SlotTellsHistory,
      LastGoodKept, Smaller, BackoffRespected, None

\* Every end of a call keeps the invariant, given what it makes of the slot.
LEMMA FinishKeeps ==
  ASSUME LiveInv, NEW r \in Reader, NEW next, Finish(r, next),
         next \in [value : {None} \union 0..now, until : Nat, strikes : 0..MaxStrikes],
         limits' \in Nat, notBefore' \in Nat, good' = next.value,
         next.strikes = Smaller(limits', MaxStrikes),
         next.until >= notBefore' \/ now >= notBefore'
  PROVE  LiveInv'
<1>1. call' \in [Reader -> {"idle"}] /\ Calling' = {}
  BY FinishEndsAll DEF LiveInv
<1>2. slot' = next /\ answer' = next.value /\ tries' = 0 /\ now' = now /\ sent' = sent
  BY DEF Finish
<1>3. TypeOK'
  BY <1>1, <1>2, BoundAssumption DEF LiveInv, TypeOK, None
<1>4. OneCall' /\ BackoffRespected'
  BY <1>1 DEF OneCall, NobodyWaitsInVain, BackoffRespected
<1>5. SlotTellsHistory'
  BY <1>2 DEF SlotTellsHistory, LastGoodKept
<1> QED  BY <1>3, <1>4, <1>5 DEF LiveInv

LEMMA StepLive == LiveInv /\ [Next]_vars => LiveInv'
<1> SUFFICES ASSUME LiveInv, [Next]_vars  PROVE LiveInv'
  OBVIOUS
<1> USE DEF LiveInv
<1>1. CASE Tick
  BY <1>1, BoundAssumption
  DEF Tick, task, history, TypeOK, OneCall, NobodyWaitsInVain, Calling, SlotTellsHistory,
      LastGoodKept, BackoffRespected, None
<1>2. ASSUME NEW r \in Reader, AskFresh(r)  PROVE LiveInv'
  BY <1>2
  DEF AskFresh, task, history, TypeOK, OneCall, NobodyWaitsInVain, Calling,
      SlotTellsHistory, LastGoodKept, BackoffRespected
<1>3. ASSUME NEW r \in Reader, Ask(r)  PROVE LiveInv'
  <2>1. now >= slot.until /\ call[r] = "idle" /\ UNCHANGED <<now, slot, answer, history>>
    BY <1>3 DEF Ask, Fresh, TypeOK
  <2>2. now >= notBefore
    BY <2>1 DEF SlotTellsHistory, TypeOK
  <2>3. SlotTellsHistory'
    BY <2>1 DEF SlotTellsHistory, LastGoodKept, history
  <2>4. BackoffRespected'
    BY <2>1, <2>2 DEF BackoffRespected, history
  <2>5. CASE Calling = {} /\ call' = [call EXCEPT ![r] = "calling"] /\ sent' = now /\ tries' = 0
    BY <2>1, <2>3, <2>4, <2>5, BoundAssumption
    DEF TypeOK, OneCall, NobodyWaitsInVain, Calling, history, None
  <2>6. CASE Calling # {} /\ call' = [call EXCEPT ![r] = "waiting"] /\ UNCHANGED <<sent, tries>>
    BY <2>1, <2>3, <2>4, <2>6
    DEF TypeOK, OneCall, NobodyWaitsInVain, Calling, history
  <2> QED  BY <1>3, <2>5, <2>6 DEF Ask
<1>4. ASSUME NEW r \in Reader, Retry(r)  PROVE LiveInv'
  BY <1>4, BoundAssumption
  DEF Retry, history, TypeOK, OneCall, NobodyWaitsInVain, Calling, SlotTellsHistory,
      LastGoodKept, BackoffRespected, None
<1>5. ASSUME NEW r \in Reader, ReplyOk(r)  PROVE LiveInv'
  <2>1. PICK value \in sent..now \union {None} :
          /\ Finish(r, Ok(value))
          /\ limits' = 0 /\ notBefore' = now + SuccessTtl /\ good' = value
    BY <1>5 DEF ReplyOk
  <2>2. Ok(value) \in [value : {None} \union 0..now, until : Nat, strikes : 0..MaxStrikes]
    BY <2>1, WaitAssumption DEF Ok, TypeOK, None
  <2>3. Ok(value).value = value /\ Ok(value).until = now + SuccessTtl /\ Ok(value).strikes = 0
    BY DEF Ok
  <2>4. now + SuccessTtl \in Nat /\ Smaller(0, MaxStrikes) = 0
    BY WaitAssumption DEF TypeOK, Smaller
  <2> QED  BY <2>1, <2>2, <2>3, <2>4, FinishKeeps
<1>6. ASSUME NEW r \in Reader, ReplyLimited(r)  PROVE LiveInv'
  <2>1. PICK header \in RetryAfter :
          /\ Finish(r, Limited(header))
          /\ limits' = limits + 1
          /\ notBefore' = now + Wait(Smaller(limits + 1, MaxStrikes), header)
          /\ UNCHANGED good
    BY <1>6 DEF ReplyLimited
  <2> DEFINE strikes == Smaller(limits + 1, MaxStrikes)
             until   == now + Wait(strikes, header)
  <2>2. Smaller(slot.strikes + 1, MaxStrikes) = strikes /\ strikes \in 1..MaxStrikes
    BY NextStrikes
  <2>3. Limited(header) = [value |-> slot.value, until |-> until, strikes |-> strikes]
    BY <2>2 DEF Limited
  <2>4. until \in Nat
    BY <2>2, WaitIsNat DEF TypeOK
  <2> HIDE DEF until, strikes
  <2>5. Limited(header) \in [value : {None} \union 0..now, until : Nat, strikes : 0..MaxStrikes]
    BY <2>2, <2>3, <2>4 DEF TypeOK
  <2>6. limits' \in Nat /\ notBefore' = until /\ strikes = Smaller(limits', MaxStrikes)
    BY <2>1 DEF TypeOK, until, strikes
  <2>7. good' = Limited(header).value
    BY <2>1, <2>3 DEF SlotTellsHistory, LastGoodKept
  <2> QED  BY <2>1, <2>3, <2>4, <2>5, <2>6, <2>7, FinishKeeps
<1>7. ASSUME NEW r \in Reader, ReplyMiss(r)  PROVE LiveInv'
  <2>1. Finish(r, Miss) /\ UNCHANGED history
    BY <1>7 DEF ReplyMiss
  <2>2. now >= notBefore
    BY <2>1 DEF Finish, BackoffRespected, Calling
  <2>3. Miss \in [value : {None} \union 0..now, until : Nat, strikes : 0..MaxStrikes]
    BY DEF Miss, TypeOK
  <2>4. Miss.value = slot.value /\ Miss.strikes = slot.strikes
    BY DEF Miss, TypeOK
  <2>5. limits' = limits /\ notBefore' = notBefore /\ good' = good
    BY <2>1 DEF history
  <2>6. limits \in Nat /\ notBefore \in Nat /\ good = slot.value
        /\ slot.strikes = Smaller(limits, MaxStrikes)
    BY DEF TypeOK, SlotTellsHistory, LastGoodKept
  <2> QED  BY <2>1, <2>2, <2>3, <2>4, <2>5, <2>6, FinishKeeps
<1>8. CASE UNCHANGED vars
  BY <1>8
  DEF vars, task, history, TypeOK, OneCall, NobodyWaitsInVain, Calling, SlotTellsHistory,
      LastGoodKept, BackoffRespected
<1> QED
  BY <1>1, <1>2, <1>3, <1>4, <1>5, <1>6, <1>7, <1>8 DEF Next, Reply

-----------------------------------------------------------------------------
THEOREM LiveInvariant == Spec => []LiveInv
  BY InitLive, StepLive, PTL DEF Spec

\* Types: strikes stay capped and no wait is negative (live-read.ts, remember).
THEOREM TypeCorrect == Spec => []TypeOK
  BY LiveInvariant, PTL DEF LiveInv

\* apiCall never calls a provider before its last success or 429 allows it.
THEOREM BackoffHolds == Spec => []BackoffRespected
  BY LiveInvariant, PTL DEF LiveInv

\* A 429 or a failure leaves the last decoded value in the slot.
THEOREM ValueKept == Spec => []LastGoodKept
<1>1. LiveInv => LastGoodKept  BY DEF LiveInv, SlotTellsHistory
<1> QED  BY <1>1, LiveInvariant, PTL

\* Whoever waits for the shared call waits for one that runs.
THEOREM WaitingIsShared == Spec => []NobodyWaitsInVain
<1>1. LiveInv => NobodyWaitsInVain  BY DEF LiveInv, OneCall
<1> QED  BY <1>1, LiveInvariant, PTL

\* Replies of one slot never hand out an older value after a newer one.
THEOREM AnswersOrdered == Spec => AnswersMoveForward
<1>1. LiveInv /\ [Next]_vars
        => [answer # None /\ answer' # None => answer' >= answer]_vars
  <2> SUFFICES ASSUME LiveInv, [Next]_vars, answer # None, answer' # None
               PROVE  answer' >= answer
    OBVIOUS
  <2>1. answer \in Nat /\ answer = slot.value /\ good = slot.value
    BY DEF LiveInv, TypeOK, SlotTellsHistory, LastGoodKept, None
  <2>2. CASE UNCHANGED answer
    BY <2>1, <2>2
  <2>3. ASSUME NEW r \in Reader, AskFresh(r)  PROVE answer' >= answer
    BY <2>1, <2>3 DEF AskFresh
  <2>4. ASSUME NEW r \in Reader, ReplyOk(r)  PROVE answer' >= answer
    <3>1. PICK value \in sent..now \union {None} : Finish(r, Ok(value))
      BY <2>4 DEF ReplyOk
    <3>2. answer' = value /\ call[r] = "calling"
      BY <3>1 DEF Finish, Ok
    <3>3. value >= sent /\ sent >= slot.value
      BY <3>1, <3>2 DEF LiveInv, OneCall, Calling, TypeOK
    <3> QED  BY <2>1, <3>1, <3>2, <3>3 DEF LiveInv, TypeOK
  <2>5. ASSUME NEW r \in Reader, ReplyLimited(r)  PROVE answer' >= answer
    <3>1. PICK header \in RetryAfter : Finish(r, Limited(header))
      BY <2>5 DEF ReplyLimited
    <3>2. answer' = slot.value
      BY <3>1 DEF Finish, Limited
    <3> QED  BY <2>1, <3>2
  <2>6. ASSUME NEW r \in Reader, ReplyMiss(r)  PROVE answer' >= answer
    <3>1. answer' = slot.value
      BY <2>6 DEF ReplyMiss, Finish, Miss, LiveInv, TypeOK
    <3> QED  BY <2>1, <3>1
  <2>7. (Tick \/ \E r \in Reader : Ask(r) \/ Retry(r)) \/ UNCHANGED vars => UNCHANGED answer
    BY DEF Tick, Ask, Retry, vars
  <2> QED  BY <2>2, <2>3, <2>4, <2>5, <2>6, <2>7 DEF Next, Reply
<1> QED  BY <1>1, LiveInvariant, PTL DEF Spec, AnswersMoveForward
=============================================================================
