----------------------------- MODULE MCIngestion -----------------------------
(* Small instances of SingleDayIngestion for TLC. *)
EXTENDS SingleDayIngestion, TLC

CONSTANTS p1, p2, x, y, r1, r2

One      == {p1}
Both     == {p1, p2}
Contents == {x, y, empty}
Bad      == {y}
Runs     == {r1, r2}
=============================================================================
