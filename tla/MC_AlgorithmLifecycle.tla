----------------------- MODULE MC_AlgorithmLifecycle -----------------------
(* A top algorithm with two sub-algorithms, for TLC.                        *)
EXTENDS AlgorithmLifecycle

CONSTANTS T, S1, S2

MCSubAlgms == <<S1, S2>>

=============================================================================
