------------------------------- MODULE Runway -------------------------------
(***************************************************************************)
(* server/ledger/runway.ts: how long until a window of a credential's      *)
(* quota is used up, estimated from the points quotaHistory returns of     *)
(* what Snapshots has stored.  Points are of one window; the spans of the  *)
(* code are constants.  An estimate is the rise it saw, the time that took *)
(* and what is left: the rate is their quotient, kept as the two numbers.  *)
(***************************************************************************)
EXTENDS Snapshots

CONSTANTS
  RateWindow,   \* RATE_WINDOW_MS
  MinSpan       \* MIN_SPAN_MS

ASSUME SpanAssumption == RateWindow \in Nat \ {0} /\ MinSpan \in Nat \ {0}

NoEstimate == [rise |-> 0, span |-> 1, left |-> 0, low |-> TRUE]

\* Everything stored of window l, as it is drawn.
WindowPoints(c, l) == Points(c, DOMAIN rows[c])[l]

\* The sample starts at the last reset, or at the first point.
SinceReset(points) ==
  LET resets == {i \in DOMAIN points : points[i].reset}
  IN  IF resets = {} THEN points ELSE SubSeq(points, Max(resets), Len(points))

\* Used is a step function.
UsedAt(sample, t) ==
  LET before == {i \in DOMAIN sample : sample[i].at <= t}
  IN  IF before = {} THEN sample[1].usedPercent ELSE sample[Max(before)].usedPercent

\* Mutant: the rate is over the time up to the last point.
SpanToLast(sample, start, now) == Max({1, sample[Len(sample)].at - start})

\* The time the rise took, up to now: a window nobody touches burns slower.
SpanOf(sample, start, now) == now - start

\* estimateRunway
Estimate(points, now) ==
  LET sample == SinceReset(points)
      first  == sample[1]
      last   == sample[Len(sample)]
      start  == Max({first.at, now - RateWindow})
      rise   == last.usedPercent - UsedAt(sample, start)
  IN  IF Len(sample) < 2 \/ last.at - first.at < MinSpan \/ now <= first.at \/ rise <= 0
      THEN NoEstimate
      ELSE [rise |-> rise, span |-> SpanOf(sample, start, now), left |-> 100 - last.usedPercent,
            low |-> last.at - first.at < 3 * MinSpan \/ Len(sample) < 4]

\* Used reaches 100 before the window resets.
RunsOut(e, now, resetsAt) == e # NoEstimate /\ e.left * e.span <= (resetsAt - now) * e.rise

-----------------------------------------------------------------------------
(* Properties. *)

Slower(e, f) == e.rise * f.span <= f.rise * e.span

\* "A window nobody touched since morning burns slower, not at yesterday's pace"
\* (runway.ts): as long as nothing new is observed, time alone never raises the
\* rate, never brings an estimate back, and never turns a window that resets in
\* time into one that runs out.
IdleSlows ==
  \A c \in Credential : \A l \in Label :
    LET points == WindowPoints(c, l)
        Later  == recordedAt..(recordedAt + RateWindow + 1)
    IN  \A t, u \in Later : t < u =>
          LET e == Estimate(points, t)
              f == Estimate(points, u)
          IN  /\ f # NoEstimate => e # NoEstimate
              /\ Slower(f, e)
              /\ \A resetsAt \in Later : RunsOut(f, u, resetsAt) => RunsOut(e, t, resetsAt)
=============================================================================
