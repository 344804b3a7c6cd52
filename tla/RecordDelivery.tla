-------------------------- MODULE RecordDelivery --------------------------
(***************************************************************************)
(* What the pop loop promises about a usage record, with nothing said of   *)
(* statements, errors or processes: a record is queued at the gateway,     *)
(* handed over to the one process that pops, and then either lands in the  *)
(* ledger or is lost.  Every hand-over is final: no record goes back to    *)
(* the queue, none is handed over twice, none leaves the ledger, and a     *)
(* batch lands or is lost as a whole.                                      *)
(***************************************************************************)
CONSTANT Record

VARIABLE status

States == {"unborn", "queued", "held", "landed", "lost"}

In(s) == {r \in Record : status[r] = s}

\* Every record of S moves to state s, the others stay where they are.
Move(S, s) == [r \in Record |-> IF r \in S THEN s ELSE status[r]]

Init == status = [r \in Record |-> "unborn"]

Offer(r) == /\ status[r] = "unborn"
            /\ status' = Move({r}, "queued")

\* The gateway gives S up at once: the part kept is held by the collector,
\* the rest (expired, undecodable, or sent in a reply nobody received) is lost.
HandOver(S, kept) ==
  /\ In("held") = {}
  /\ S \subseteq In("queued")
  /\ kept \subseteq S
  /\ status' = [r \in Record |-> IF r \in kept THEN "held"
                                 ELSE IF r \in S THEN "lost" ELSE status[r]]

\* The gateway forgets records nobody popped in time.
Forget(S) == /\ S \subseteq In("queued")
             /\ status' = Move(S, "lost")

Land == status' = Move(In("held"), "landed")
Lose == status' = Move(In("held"), "lost")

Next == \/ \E r \in Record : Offer(r)
        \/ \E S \in SUBSET Record, kept \in SUBSET Record : HandOver(S, kept)
        \/ \E S \in SUBSET Record : Forget(S)
        \/ Land
        \/ Lose

Spec == Init /\ [][Next]_status
=============================================================================
