----------------------------- MODULE MCHealth -----------------------------
(* A pop and a snapshot in each tick, of which the pop may take one more,  *)
(* maintenance every four; a rule of one minute, which a slow pop sets off.*)
EXTENDS Health

MCEvery == [pop |-> 1, snapshot |-> 1, maintain |-> 4]
MCSlow  == [pop |-> 1, snapshot |-> 0, maintain |-> 0]
=============================================================================
