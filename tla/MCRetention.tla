--------------------------- MODULE MCRetention ----------------------------
(* The maintenance loop on a short calendar: hours of two units, a horizon *)
(* of one hour, and a retention exactly as long as IdleBound requires.     *)
EXTENDS Retention

ASSUME TightIdleBound == MaxIdle + Horizon + Hour = RawRetention + 1
=============================================================================
