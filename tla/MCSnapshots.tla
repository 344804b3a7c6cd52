--------------------------- MODULE MCSnapshots ---------------------------
(* A Codex credential (headers and usage reads) and one of a provider that *)
(* reports nothing, and three quotas: none, one with two windows and one   *)
(* that has more of the first and says nothing of the second.  A runway is *)
(* estimated from two points at least one unit apart, over two units.      *)
EXTENDS Runway

CONSTANTS codex, gemini, quiet, low, high

MCCredential == {codex, gemini}
MCQuota == {quiet, low, high}
MCWindows ==
  [q \in MCQuota |-> CASE q = quiet -> <<>>
                       [] q = low   -> [weekly |-> 10, fable |-> 20]
                       [] q = high  -> [weekly |-> 40]]
=============================================================================
