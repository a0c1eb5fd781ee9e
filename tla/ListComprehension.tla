-------------------------- MODULE ListComprehension --------------------------
(* A list comprehension with a condition, as the programs write it: the elements *)
(* of a list that are wanted, in the order of the list; lists one after the other  *)
(* as nested loops go through them; and a sum.                                   *)
EXTENDS Sequences, SequencesExt, FiniteSetsExt

Picked(list, wanted) ==
    FoldLeft(LAMBDA chosen, e : IF e \in wanted THEN Append(chosen, e) ELSE chosen, <<>>, list)

Joined(lists) == FoldLeft(LAMBDA all, list : all \o list, <<>>, lists)

SumUp(values, keys) == MapThenSumSet(LAMBDA k : values[k], keys)
=============================================================================
