------------------------- MODULE MC_EventLoopJob -------------------------
(* A top algorithm with two sub-algorithms and two event selectors.         *)
EXTENDS EventLoopJob, TLC

CONSTANTS T, S1, S2, Sel1, Sel2

MCSubAlgms == <<S1, S2>>

\* Nothing in the model tells the two event selectors apart.
MCSelSymmetry == Permutations({Sel1, Sel2})
=============================================================================
