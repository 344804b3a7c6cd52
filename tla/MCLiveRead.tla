---------------------------- MODULE MCLiveRead ----------------------------
(* Three readers (the snapshot loop and two page loads) of one slot.       *)
EXTENDS LiveRead, TLC

CONSTANTS loop, page1, page2

MCReader == {loop, page1, page2}
MCRetryAfter == {None, 0, 2, 9}
=============================================================================
