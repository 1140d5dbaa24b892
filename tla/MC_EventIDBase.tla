--------------------------- MODULE MC_EventIDBase ---------------------------
(* Three objects, enough for transitivity, set from the values 0 and 1.    *)
EXTENDS EventIDBase, TLC

CONSTANTS e1, e2, e3

MCIds == {e1, e2, e3}
MCSymmetry == Permutations(MCIds)
=============================================================================
