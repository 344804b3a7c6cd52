--------------------------- MODULE MCPoolActions ---------------------------
(* Two calls, so that one goes on while its card is gone and the next is    *)
(* made; reloads run into each of them as often as they like.               *)
EXTENDS PoolActions
=============================================================================
