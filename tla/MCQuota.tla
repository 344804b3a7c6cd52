------------------------------ MODULE MCQuota ------------------------------
(* A Claude account with snapshots of two models, a Codex account that is  *)
(* read and one that is not, and an xAI account.  The headers of the last  *)
(* Codex account name its two windows alike.                               *)
EXTENDS Quota, TLC

MCProvider == [a |-> "claude", b |-> "codex", c |-> "codex", x |-> "xai"]
MCCredential == DOMAIN MCProvider
MCAsked == {"a", "b", "x"}
MCRank == [a |-> 3, b |-> 2, c |-> 1, x |-> 4]
MCPosition == [opus |-> 1, fable |-> 2]
MCModel == DOMAIN MCPosition
MCFamily == [opus |-> "weekly opus", fable |-> "weekly fable"]

Headers(used, minutes, flag) == [used |-> used, minutes |-> minutes, flag |-> flag]
MCReport ==
  [a |-> {Headers(("7d" :> 50) @@ ("7d_oi" :> 80), <<>>, "allowed_warning"),
         Headers("7d" :> 60, <<>>, "rejected")},
   b |-> {}, x |-> {},
   c |-> {Headers([primary |-> 30, secondary |-> 100], [primary |-> "weekly", secondary |-> "weekly"],
                  "limit_reached")}]

Fable(active, used) == [active |-> active, used |-> used]
ClaudeUsage(used, limits, onDemand) ==
  [kind |-> "claude", used |-> used, limits |-> limits, onDemand |-> onDemand]
MCUsage ==
  [a |-> {ClaudeUsage(<<>>, <<>>, TRUE),
          ClaudeUsage("weekly" :> 55, <<Fable("unset", 10), Fable("yes", 20)>>, FALSE),
          ClaudeUsage(<<>>, <<Fable("no", 70)>>, FALSE)},
   b |-> {[kind |-> "codex", used |-> ("weekly" :> 100), flag |-> "allowed"],
          [kind |-> "codex", used |-> <<>>, flag |-> "allowed"]},
   c |-> {},
   x |-> {[kind |-> "xai", used |-> ("weekly" :> 40), onDemand |-> TRUE]}]
=============================================================================
