---------------------------- MODULE MCUsagePop ----------------------------
(* The pop loop on four records: a and b carry the same request_id, c has *)
(* its own, m does not decode; a pop asks for two. *)
EXTENDS UsagePop

CONSTANTS a, b, c, m

MCRecord == {a, b, c, m}
MCMalformed == {m}
MCIdOf == [r \in MCRecord |-> IF r = b THEN a ELSE r]
=============================================================================
