----------------------------- MODULE LiveRead -----------------------------
(***************************************************************************)
(* One live read slot of server/management/api.ts (apiCall), with          *)
(* live-read.ts: the collector's snapshot loop and every page load ask for *)
(* a credential's usage; a fresh slot answers at once, and otherwise all   *)
(* of them share the one call in flight, whose reply updates the slot.     *)
(*                                                                         *)
(* Slots of different keys do not touch each other.  A fiber runs from one *)
(* asynchronous point to the next in one step.  A usage value is           *)
(* represented by the moment the provider was read.                        *)
(***************************************************************************)
EXTENDS Integers, FiniteSets

CONSTANTS
  Reader,       \* the fibers that read
  SuccessTtl,   \* SUCCESS_TTL_MS
  BackoffBase,  \* BACKOFF_BASE_MS
  BackoffCap,   \* BACKOFF_CAP_MS
  MaxStrikes,   \* 8
  RetryTimes,   \* retries of a plain read
  RetryAfter,   \* what Retry-After may say: a wait, or None
  MaxTime       \* bound on the clock

None == -1
Smaller(m, n) == IF m < n THEN m ELSE n

\* backoffMs
Backoff(n) == Smaller(BackoffCap, BackoffBase * 2^(n - 1))

ASSUME WaitAssumption == /\ SuccessTtl \in Nat \ {0} /\ BackoffCap \in Nat
                         /\ MaxStrikes \in Nat \ {0}
                         /\ \A n \in 1..MaxStrikes : Backoff(n) \in Nat
ASSUME HeaderAssumption == RetryAfter \subseteq Nat \union {None}
ASSUME BoundAssumption == RetryTimes \in Nat /\ MaxTime \in Nat

VARIABLES
  now,          \* Date.now()
  slot,         \* the LiveSlot; one nobody has written yet reads like the initial one
  call,         \* each reader: "idle", "calling" (it runs the task), "waiting"
  tries,        \* retries the running task has used
  sent,         \* history: when the running task sent its last request
  answer,       \* history: the last answer any reader got
  limits,       \* history: 429s since the last decoded reply
  notBefore,    \* history: until when the last success or 429 asks for no call
  good          \* history: the value of the last decoded reply, or None

task    == <<call, tries, sent>>
history == <<limits, notBefore, good>>
vars == <<now, slot, task, answer, history>>

Calling == {r \in Reader : call[r] = "calling"}
Fresh == now < slot.until

-----------------------------------------------------------------------------
(* remember *)

Ok(value) == [value |-> value, until |-> now + SuccessTtl, strikes |-> 0]

\* Retry-After wins over the exponential wait if it is positive; both are capped.
Wait(strikes, header) ==
  Smaller(BackoffCap, IF header > 0 THEN header ELSE Backoff(strikes))

\* Mutant: every 429 waits like the first.
LimitedWithoutStrikes(header) ==
  [value |-> slot.value, until |-> now + Wait(1, header), strikes |-> 1]

Limited(header) ==
  LET strikes == Smaller(slot.strikes + 1, MaxStrikes)
  IN  [value |-> slot.value, until |-> now + Wait(strikes, header), strikes |-> strikes]

\* Mutant: a failed read drops the value.
MissForgets == [slot EXCEPT !.until = now, !.value = None]

Miss == [slot EXCEPT !.until = now]

-----------------------------------------------------------------------------
Tick ==
  /\ now < MaxTime
  /\ now' = now + 1
  /\ UNCHANGED <<slot, task, answer, history>>

\* A fresh slot is the answer.
AskFresh(r) ==
  /\ call[r] = "idle" /\ Fresh
  /\ answer' = slot.value
  /\ UNCHANGED <<now, slot, task, history>>

\* Mutant: each reader runs a task of its own.
AskUnshared(r) ==
  /\ call[r] = "idle" /\ ~Fresh
  /\ call' = [call EXCEPT ![r] = "calling"]
  /\ sent' = IF Calling = {} THEN now ELSE sent
  /\ tries' = 0
  /\ UNCHANGED <<now, slot, answer, history>>

\* inflight: the first to ask runs the task, the others wait for its outcome.
Ask(r) ==
  /\ call[r] = "idle" /\ ~Fresh
  /\ \/ /\ Calling = {}
        /\ call' = [call EXCEPT ![r] = "calling"]
        /\ sent' = now /\ tries' = 0
     \/ /\ Calling # {}
        /\ call' = [call EXCEPT ![r] = "waiting"]
        /\ UNCHANGED <<sent, tries>>
  /\ UNCHANGED <<now, slot, answer, history>>

\* A transient failure of the request itself is retried.
Retry(r) ==
  /\ call[r] = "calling" /\ tries < RetryTimes
  /\ tries' = tries + 1
  /\ sent' = now
  /\ UNCHANGED <<now, slot, call, answer, history>>

\* Mutant: only the owner of the task hears of its end.
FinishOwnerOnly(r, next) ==
  /\ call[r] = "calling"
  /\ slot' = next
  /\ call' = [call EXCEPT ![r] = "idle"]
  /\ answer' = next.value
  /\ tries' = 0
  /\ UNCHANGED <<now, sent>>

\* The task ends: whoever waited for it gets what its owner gets.
Finish(r, next) ==
  /\ call[r] = "calling"
  /\ slot' = next
  /\ call' = [q \in Reader |-> IF q = r \/ call[q] = "waiting" THEN "idle" ELSE call[q]]
  /\ answer' = next.value
  /\ tries' = 0
  /\ UNCHANGED <<now, sent>>

\* 2xx: a body that decodes, the value read at some moment of the call, or one
\* whose decoder finds nothing; both count as a success.
ReplyOk(r) ==
  \E value \in sent..now \union {None} :
    /\ Finish(r, Ok(value))
    /\ limits' = 0 /\ notBefore' = now + SuccessTtl /\ good' = value

\* 429, with or without Retry-After.
ReplyLimited(r) ==
  \E header \in RetryAfter :
    /\ Finish(r, Limited(header))
    /\ limits' = limits + 1
    /\ notBefore' = now + Wait(Smaller(limits + 1, MaxStrikes), header)
    /\ UNCHANGED good

\* Any other status, a body that is not JSON, or a request that failed for good.
ReplyMiss(r) == Finish(r, Miss) /\ UNCHANGED history

Reply(r) == ReplyOk(r) \/ ReplyLimited(r) \/ ReplyMiss(r)
-----------------------------------------------------------------------------
Init ==
  /\ now = 0
  /\ slot = [value |-> None, until |-> 0, strikes |-> 0]
  /\ call = [r \in Reader |-> "idle"] /\ tries = 0 /\ sent = 0
  /\ answer = None
  /\ limits = 0 /\ notBefore = 0 /\ good = None

Next == Tick \/ \E r \in Reader : AskFresh(r) \/ Ask(r) \/ Retry(r) \/ Reply(r)

Spec == Init /\ [][Next]_vars

\* Every request times out and is retried RetryTimes times at most, so a call
\* comes to an end; nobody has to ask.
FairSpec == Spec /\ \A r \in Reader : WF_vars(Reply(r))
-----------------------------------------------------------------------------
(* Properties. *)

TypeOK ==
  /\ now \in 0..MaxTime
  /\ slot \in [value : {None} \union 0..now, until : Nat, strikes : 0..MaxStrikes]
  /\ call \in [Reader -> {"idle", "calling", "waiting"}]
  /\ tries \in 0..RetryTimes
  /\ sent \in 0..now /\ answer \in {None} \union 0..now
  /\ limits \in Nat /\ notBefore \in Nat
  /\ good \in {None} \union 0..now

\* "Success is reused for a few minutes. 429s keep the last good value and back
\* off exponentially so collector + pools polls cannot stampede" (live-read.ts):
\* no call is in flight before the last success is old enough, or the last 429
\* in a row has had its wait, whoever asks and whatever failed in between.
BackoffRespected == Calling # {} => now >= notBefore

\* The slot holds the last decoded value through every 429 and every failure.
LastGoodKept == slot.value = good

\* No reader is given a value read earlier than the one handed out before it,
\* whoever got that: replies cannot overtake each other.
AnswersMoveForward ==
  [][answer # None /\ answer' # None => answer' >= answer]_vars

\* Whoever waits, waits for a call that is really there.
NobodyWaitsInVain == \A r \in Reader : call[r] = "waiting" => Calling # {}

\* Everybody who asks is answered.
AskAnswered == \A r \in Reader : call[r] # "idle" ~> call[r] = "idle"
=============================================================================
