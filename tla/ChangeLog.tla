----------------------------- MODULE ChangeLog -----------------------------
(***************************************************************************)
(* What the snapshot loop promises about the quotas it stores, with        *)
(* nothing said of polls, statements or moments: each credential has a log *)
(* to which only changes are added, one at a time and at the end.  Now and *)
(* then the logs of some credentials are vouched for, all at once, which   *)
(* they may be only while each ends with the quota vouched for.            *)
(***************************************************************************)
EXTENDS Sequences

CONSTANTS Credential, Quota

VARIABLES
  log,      \* the quotas of each credential, oldest first
  vouched   \* what was vouched for last, of the credentials it was for

EndsWith(c, quota) == log[c] # <<>> /\ log[c][Len(log[c])] = quota

Init == log = [c \in Credential |-> <<>>] /\ vouched = <<>>

Change(c, quota) ==
  /\ ~EndsWith(c, quota)
  /\ log' = [log EXCEPT ![c] = Append(@, quota)]
  /\ UNCHANGED vouched

Vouch(quotas) ==
  /\ \A c \in DOMAIN quotas : EndsWith(c, quotas[c])
  /\ vouched' = quotas
  /\ UNCHANGED log

Next ==
  \/ \E c \in Credential, quota \in Quota : Change(c, quota)
  \/ \E S \in SUBSET Credential : \E quotas \in [S -> Quota] : Vouch(quotas)

Spec == Init /\ [][Next]_<<log, vouched>>
=============================================================================
