----------------------------- MODULE MCAlerts -----------------------------
(* Three rules over two credentials, a rules file that loses a rule or is  *)
(* absent, and levels on both sides of the line and of the margin.         *)
EXTENDS Alerts, TLC

CONSTANTS c1, c2

MCRule == {"rem", "bad", "stall"}
MCCredential == {c1, c2}
MCKind == [r \in MCRule |-> CASE r = "rem" -> "remaining"
                              [] r = "bad" -> "unhealthy"
                              [] r = "stall" -> "stalled"]
MCScope == [r \in MCRule |-> IF r = "rem" THEN {c1} ELSE MCCredential]
MCHeartbeat == {"bad"}
MCLevel == {19, 20, 24, 25}
\* c1 is watched for its window and its status, c2 for its status; either may
\* be missing.
MCAnswer ==
  LET Healthy(S) == [remaining : S, status : {"active"}]
      Limited == [remaining : {25}, status : {"limited"}]
      Some(c, S) == {<<>>} \union {c :> s : s \in S}
  IN  {f @@ g : f \in Some(c1, Healthy(MCLevel \union {NoWindow}) \union Limited),
                g \in Some(c2, [remaining : {NoWindow}, status : {"active", "error"}])}
MCRuleFile == {Unusable, {"rem", "stall"}, {"rem", "bad"}}

\* The same with one rule and one credential, enough for a single subject's life.
OneRule == {"rem"}
OneCredential == {c1}
OneKind == [r \in OneRule |-> "remaining"]
OneScope == [r \in OneRule |-> OneCredential]
OneRuleFile == {OneRule}
OneAnswer == {o \in MCAnswer : DOMAIN o \subseteq OneCredential}
=============================================================================
