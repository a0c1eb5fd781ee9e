------------------------- MODULE MirroredPublication -------------------------
(* What the two stores of a dataset promise together: whatever crashes, one      *)
(* publication after the other is confirmed, rows never make way for an empty    *)
(* answer, and what is served is always the confirmed publication of the moment  *)
(* it was switched to.                                                          *)
CONSTANTS Content, empty, none

VARIABLES confirmed, served

Init == confirmed = none /\ served = none

Confirm(g) ==
    /\ g = empty => confirmed \in {none, empty}
    /\ confirmed' = g
    /\ UNCHANGED served

Serve ==
    /\ confirmed # none
    /\ served' = confirmed
    /\ UNCHANGED confirmed

Next == (\E g \in Content : Confirm(g)) \/ Serve

Spec == Init /\ [][Next]_<<confirmed, served>>
=============================================================================
