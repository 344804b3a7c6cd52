---------------------------- MODULE MCLedgerPage ----------------------------
(* The ledger page over the maintenance loop of MCRetention: days of two   *)
(* hours, one preset, a day, a range of hours older than the raw rows, one *)
(* off the hour, and one that is inverted.                                 *)
EXTENDS LedgerPage

ASSUME TightIdleBound == MaxIdle + Horizon + Hour = RawRetention + 1

Submitted(from, to, dateOnly) == [from |-> from, to |-> to, dateOnly |-> dateOnly]
MCCustom == {Submitted(0, 0, TRUE), Submitted(1, 6, FALSE), Submitted(5, 4, FALSE)}
MCTime == 0..MaxTime
MCClientOf == [t \in MCTime |-> IF t % 3 = 2 THEN "devbox" ELSE "macbook"]
MCModelOf == [t \in MCTime |-> IF t % 4 = 1 THEN "opus" ELSE "codex"]
MCLatencyOf == [t \in MCTime |-> IF t % 4 = 3 THEN None ELSE (7 * t) % 5]
=============================================================================
