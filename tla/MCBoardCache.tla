--------------------------- MODULE MCBoardCache ---------------------------
(* Small instances of BoardCache for TLC. *)
EXTENDS BoardCache, TLC

CONSTANTS t1, t2, t3, a, b, c

Threads == {t1, t2, t3}
Triple  == {a, b, c}
OneRound == {1}
=============================================================================
