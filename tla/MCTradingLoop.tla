--------------------------- MODULE MCTradingLoop ---------------------------
(* Small instances of TradingLoop for TLC. *)
EXTENDS TradingLoop, TLC

CONSTANTS s1, s2, s3

Pair  == {s1, s2}
Three == {s1, s2, s3}
Symmetry == Permutations(Symbol)
=============================================================================
